---- MODULE Spec2Model ----
(***************************************************************************)
(* Collab classification pipeline of PUBG_YoutubeAnalyzer:                 *)
(* pipeline/classify.py (rule engine, orchestrator, partner normalizer),   *)
(* clients/gpt_client.py (AI classifier with cache and retry),             *)
(* db/models.py (video store, GPT cache) and pipeline/fetch.py.            *)
(*                                                                         *)
(* Strings are TLA+ strings; every string operation of the code (lower,    *)
(* strip, `in`, slicing, f-string concatenation) is computed on the        *)
(* character sequence Spell[s].  A character outside ASCII is written      *)
(* <U+XXXX> in a string and "U+XXXX" in its spelling.  Confidences are in  *)
(* hundredths (0.85 is 85).                                                *)
(***************************************************************************)
EXTENDS Integers, Sequences, FiniteSets, TLC

\* Python's None.
None == "<None>"

(***************************************************************************)
(* The spelling of every string the model handles.                         *)
(***************************************************************************)
Spell ==
    ("collab" :> <<"c", "o", "l", "l", "a", "b">>)
    @@ ("collaboration" :> <<"c", "o", "l", "l", "a", "b", "o", "r", "a", "t", "i", "o", "n">>)
    @@ ("x " :> <<"x", " ">>)
    @@ (" x " :> <<" ", "x", " ">>)
    @@ ("<U+00D7>" :> <<"U+00D7">>)
    @@ ("<U+CF5C><U+B77C><U+BCF4>" :> <<"U+CF5C", "U+B77C", "U+BCF4">>)
    @@ ("<U+30B3><U+30E9><U+30DC>" :> <<"U+30B3", "U+30E9", "U+30DC">>)
    @@ ("with " :> <<"w", "i", "t", "h", " ">>)
    @@ ("featuring" :> <<"f", "e", "a", "t", "u", "r", "i", "n", "g">>)
    @@ ("feat." :> <<"f", "e", "a", "t", ".">>)
    @@ ("ft." :> <<"f", "t", ".">>)
    @@ ("crossover" :> <<"c", "r", "o", "s", "s", "o", "v", "e", "r">>)
    @@ ("partnership" :> <<"p", "a", "r", "t", "n", "e", "r", "s", "h", "i", "p">>)
    @@ ("limited" :> <<"l", "i", "m", "i", "t", "e", "d">>)
    @@ ("exclusive" :> <<"e", "x", "c", "l", "u", "s", "i", "v", "e">>)
    @@ ("special" :> <<"s", "p", "e", "c", "i", "a", "l">>)
    @@ ("black pink" :> <<"b", "l", "a", "c", "k", " ", "p", "i", "n", "k">>)
    @@ ("BLACKPINK" :> <<"B", "L", "A", "C", "K", "P", "I", "N", "K">>)
    @@ ("blackpink" :> <<"b", "l", "a", "c", "k", "p", "i", "n", "k">>)
    @@ ("<U+BE14><U+B799><U+D551><U+D06C>" :> <<"U+BE14", "U+B799", "U+D551", "U+D06C">>)
    @@ ("newjeans" :> <<"n", "e", "w", "j", "e", "a", "n", "s">>)
    @@ ("NewJeans" :> <<"N", "e", "w", "J", "e", "a", "n", "s">>)
    @@ ("new jeans" :> <<"n", "e", "w", " ", "j", "e", "a", "n", "s">>)
    @@ ("<U+B274><U+C9C4><U+C2A4>" :> <<"U+B274", "U+C9C4", "U+C2A4">>)
    @@ ("lamborghini" :> <<"l", "a", "m", "b", "o", "r", "g", "h", "i", "n", "i">>)
    @@ ("Lamborghini" :> <<"L", "a", "m", "b", "o", "r", "g", "h", "i", "n", "i">>)
    @@ ("mclaren" :> <<"m", "c", "l", "a", "r", "e", "n">>)
    @@ ("McLaren" :> <<"M", "c", "L", "a", "r", "e", "n">>)
    @@ ("bugatti" :> <<"b", "u", "g", "a", "t", "t", "i">>)
    @@ ("Bugatti" :> <<"B", "u", "g", "a", "t", "t", "i">>)
    @@ ("koenigsegg" :> <<"k", "o", "e", "n", "i", "g", "s", "e", "g", "g">>)
    @@ ("Koenigsegg" :> <<"K", "o", "e", "n", "i", "g", "s", "e", "g", "g">>)
    @@ ("jujutsu kaisen" :> <<"j", "u", "j", "u", "t", "s", "u", " ", "k", "a", "i", "s", "e", "n">>)
    @@ ("Jujutsu Kaisen" :> <<"J", "u", "j", "u", "t", "s", "u", " ", "K", "a", "i", "s", "e", "n">>)
    @@ ("<U+C8FC><U+C220><U+D68C><U+C804>" :> <<"U+C8FC", "U+C220", "U+D68C", "U+C804">>)
    @@ ("dragon ball" :> <<"d", "r", "a", "g", "o", "n", " ", "b", "a", "l", "l">>)
    @@ ("Dragon Ball" :> <<"D", "r", "a", "g", "o", "n", " ", "B", "a", "l", "l">>)
    @@ ("dragonball" :> <<"d", "r", "a", "g", "o", "n", "b", "a", "l", "l">>)
    @@ ("<U+B4DC><U+B798><U+ACE4><U+BCFC>" :> <<"U+B4DC", "U+B798", "U+ACE4", "U+BCFC">>)
    @@ ("neon genesis evangelion" :> <<"n", "e", "o", "n", " ", "g", "e", "n", "e", "s", "i", "s", " ", "e", "v", "a", "n", "g", "e", "l", "i", "o", "n">>)
    @@ ("Evangelion" :> <<"E", "v", "a", "n", "g", "e", "l", "i", "o", "n">>)
    @@ ("evangelion" :> <<"e", "v", "a", "n", "g", "e", "l", "i", "o", "n">>)
    @@ ("<U+C5D0><U+BC18><U+AC8C><U+B9AC><U+C628>" :> <<"U+C5D0", "U+BC18", "U+AC8C", "U+B9AC", "U+C628">>)
    @@ ("attack on titan" :> <<"a", "t", "t", "a", "c", "k", " ", "o", "n", " ", "t", "i", "t", "a", "n">>)
    @@ ("Attack on Titan" :> <<"A", "t", "t", "a", "c", "k", " ", "o", "n", " ", "T", "i", "t", "a", "n">>)
    @@ ("<U+C9C4><U+ACA9><U+C758> <U+AC70><U+C778>" :> <<"U+C9C4", "U+ACA9", "U+C758", " ", "U+AC70", "U+C778">>)
    @@ ("arcane" :> <<"a", "r", "c", "a", "n", "e">>)
    @@ ("Arcane" :> <<"A", "r", "c", "a", "n", "e">>)
    @@ ("<U+C544><U+CF00><U+C778>" :> <<"U+C544", "U+CF00", "U+C778">>)
    @@ ("the boys" :> <<"t", "h", "e", " ", "b", "o", "y", "s">>)
    @@ ("The Boys" :> <<"T", "h", "e", " ", "B", "o", "y", "s">>)
    @@ ("godzilla" :> <<"g", "o", "d", "z", "i", "l", "l", "a">>)
    @@ ("Godzilla" :> <<"G", "o", "d", "z", "i", "l", "l", "a">>)
    @@ ("<U+ACE0><U+C9C8><U+B77C>" :> <<"U+ACE0", "U+C9C8", "U+B77C">>)
    @@ ("kong" :> <<"k", "o", "n", "g">>)
    @@ ("Kong" :> <<"K", "o", "n", "g">>)
    @@ ("walking dead" :> <<"w", "a", "l", "k", "i", "n", "g", " ", "d", "e", "a", "d">>)
    @@ ("The Walking Dead" :> <<"T", "h", "e", " ", "W", "a", "l", "k", "i", "n", "g", " ", "D", "e", "a", "d">>)
    @@ ("<U+C6CC><U+D0B9><U+B370><U+B4DC>" :> <<"U+C6CC", "U+D0B9", "U+B370", "U+B4DC">>)
    @@ ("resident evil" :> <<"r", "e", "s", "i", "d", "e", "n", "t", " ", "e", "v", "i", "l">>)
    @@ ("Resident Evil" :> <<"R", "e", "s", "i", "d", "e", "n", "t", " ", "E", "v", "i", "l">>)
    @@ ("<U+B808><U+C9C0><U+B358><U+D2B8> <U+C774><U+BE14>" :> <<"U+B808", "U+C9C0", "U+B358", "U+D2B8", " ", "U+C774", "U+BE14">>)
    @@ ("metro" :> <<"m", "e", "t", "r", "o">>)
    @@ ("Metro Exodus" :> <<"M", "e", "t", "r", "o", " ", "E", "x", "o", "d", "u", "s">>)
    @@ ("alan walker" :> <<"a", "l", "a", "n", " ", "w", "a", "l", "k", "e", "r">>)
    @@ ("Alan Walker" :> <<"A", "l", "a", "n", " ", "W", "a", "l", "k", "e", "r">>)
    @@ ("<U+C568><U+B7F0> <U+C6CC><U+CEE4>" :> <<"U+C568", "U+B7F0", " ", "U+C6CC", "U+CEE4">>)
    @@ ("naruto" :> <<"n", "a", "r", "u", "t", "o">>)
    @@ ("one piece" :> <<"o", "n", "e", " ", "p", "i", "e", "c", "e">>)
    @@ ("demon slayer" :> <<"d", "e", "m", "o", "n", " ", "s", "l", "a", "y", "e", "r">>)
    @@ ("spy x family" :> <<"s", "p", "y", " ", "x", " ", "f", "a", "m", "i", "l", "y">>)
    @@ ("assassin" :> <<"a", "s", "s", "a", "s", "s", "i", "n">>)
    @@ ("tomb raider" :> <<"t", "o", "m", "b", " ", "r", "a", "i", "d", "e", "r">>)
    @@ ("league of legends" :> <<"l", "e", "a", "g", "u", "e", " ", "o", "f", " ", "l", "e", "g", "e", "n", "d", "s">>)
    @@ ("valorant" :> <<"v", "a", "l", "o", "r", "a", "n", "t">>)
    @@ ("fortnite" :> <<"f", "o", "r", "t", "n", "i", "t", "e">>)
    @@ ("call of duty" :> <<"c", "a", "l", "l", " ", "o", "f", " ", "d", "u", "t", "y">>)
    @@ ("apex" :> <<"a", "p", "e", "x">>)
    @@ ("dune" :> <<"d", "u", "n", "e">>)
    @@ ("matrix" :> <<"m", "a", "t", "r", "i", "x">>)
    @@ ("john wick" :> <<"j", "o", "h", "n", " ", "w", "i", "c", "k">>)
    @@ ("transformers" :> <<"t", "r", "a", "n", "s", "f", "o", "r", "m", "e", "r", "s">>)
    @@ ("bts" :> <<"b", "t", "s">>)
    @@ ("marshmello" :> <<"m", "a", "r", "s", "h", "m", "e", "l", "l", "o">>)
    @@ ("dj" :> <<"d", "j">>)
    @@ ("band" :> <<"b", "a", "n", "d">>)
    @@ ("singer" :> <<"s", "i", "n", "g", "e", "r">>)
    @@ ("aston martin" :> <<"a", "s", "t", "o", "n", " ", "m", "a", "r", "t", "i", "n">>)
    @@ ("ferrari" :> <<"f", "e", "r", "r", "a", "r", "i">>)
    @@ ("porsche" :> <<"p", "o", "r", "s", "c", "h", "e">>)
    @@ ("bmw" :> <<"b", "m", "w">>)
    @@ ("mercedes" :> <<"m", "e", "r", "c", "e", "d", "e", "s">>)
    @@ ("audi" :> <<"a", "u", "d", "i">>)
    @@ ("nike" :> <<"n", "i", "k", "e">>)
    @@ ("adidas" :> <<"a", "d", "i", "d", "a", "s">>)
    @@ ("puma" :> <<"p", "u", "m", "a">>)
    @@ ("supreme" :> <<"s", "u", "p", "r", "e", "m", "e">>)
    @@ ("KR" :> <<"K", "R">>)
    @@ ("korea" :> <<"k", "o", "r", "e", "a">>)
    @@ ("korean" :> <<"k", "o", "r", "e", "a", "n">>)
    @@ ("<U+D55C><U+AD6D>" :> <<"U+D55C", "U+AD6D">>)
    @@ ("<U+D55C><U+AE00>" :> <<"U+D55C", "U+AE00">>)
    @@ ("kr server" :> <<"k", "r", " ", "s", "e", "r", "v", "e", "r">>)
    @@ ("JP" :> <<"J", "P">>)
    @@ ("japan" :> <<"j", "a", "p", "a", "n">>)
    @@ ("japanese" :> <<"j", "a", "p", "a", "n", "e", "s", "e">>)
    @@ ("<U+65E5><U+672C>" :> <<"U+65E5", "U+672C">>)
    @@ ("<U+65E5><U+672C><U+8A9E>" :> <<"U+65E5", "U+672C", "U+8A9E">>)
    @@ ("jp server" :> <<"j", "p", " ", "s", "e", "r", "v", "e", "r">>)
    @@ ("NA" :> <<"N", "A">>)
    @@ ("north america" :> <<"n", "o", "r", "t", "h", " ", "a", "m", "e", "r", "i", "c", "a">>)
    @@ ("usa" :> <<"u", "s", "a">>)
    @@ ("us server" :> <<"u", "s", " ", "s", "e", "r", "v", "e", "r">>)
    @@ ("na server" :> <<"n", "a", " ", "s", "e", "r", "v", "e", "r">>)
    @@ ("EU" :> <<"E", "U">>)
    @@ ("europe" :> <<"e", "u", "r", "o", "p", "e">>)
    @@ ("european" :> <<"e", "u", "r", "o", "p", "e", "a", "n">>)
    @@ ("eu server" :> <<"e", "u", " ", "s", "e", "r", "v", "e", "r">>)
    @@ ("SEA" :> <<"S", "E", "A">>)
    @@ ("southeast asia" :> <<"s", "o", "u", "t", "h", "e", "a", "s", "t", " ", "a", "s", "i", "a">>)
    @@ ("sea server" :> <<"s", "e", "a", " ", "s", "e", "r", "v", "e", "r">>)
    @@ ("indonesia" :> <<"i", "n", "d", "o", "n", "e", "s", "i", "a">>)
    @@ ("thailand" :> <<"t", "h", "a", "i", "l", "a", "n", "d">>)
    @@ ("vietnam" :> <<"v", "i", "e", "t", "n", "a", "m">>)
    @@ ("philippines" :> <<"p", "h", "i", "l", "i", "p", "p", "i", "n", "e", "s">>)
    @@ ("LATAM" :> <<"L", "A", "T", "A", "M">>)
    @@ ("latin america" :> <<"l", "a", "t", "i", "n", " ", "a", "m", "e", "r", "i", "c", "a">>)
    @@ ("latam" :> <<"l", "a", "t", "a", "m">>)
    @@ ("brazil" :> <<"b", "r", "a", "z", "i", "l">>)
    @@ ("mexico" :> <<"m", "e", "x", "i", "c", "o">>)
    @@ ("spanish" :> <<"s", "p", "a", "n", "i", "s", "h">>)
    @@ ("MENA" :> <<"M", "E", "N", "A">>)
    @@ ("middle east" :> <<"m", "i", "d", "d", "l", "e", " ", "e", "a", "s", "t">>)
    @@ ("mena" :> <<"m", "e", "n", "a">>)
    @@ ("arabic" :> <<"a", "r", "a", "b", "i", "c">>)
    @@ ("arab" :> <<"a", "r", "a", "b">>)
    @@ ("anime" :> <<"a", "n", "i", "m", "e">>)
    @@ ("manga" :> <<"m", "a", "n", "g", "a">>)
    @@ ("<U+30A2><U+30CB><U+30E1>" :> <<"U+30A2", "U+30CB", "U+30E1">>)
    @@ ("<U+6F2B><U+753B>" :> <<"U+6F2B", "U+753B">>)
    @@ ("movie" :> <<"m", "o", "v", "i", "e">>)
    @@ ("film" :> <<"f", "i", "l", "m">>)
    @@ ("series" :> <<"s", "e", "r", "i", "e", "s">>)
    @@ ("tv show" :> <<"t", "v", " ", "s", "h", "o", "w">>)
    @@ ("<U+C601><U+D654>" :> <<"U+C601", "U+D654">>)
    @@ ("<U+B4DC><U+B77C><U+B9C8>" :> <<"U+B4DC", "U+B77C", "U+B9C8">>)
    @@ ("artist" :> <<"a", "r", "t", "i", "s", "t">>)
    @@ ("music" :> <<"m", "u", "s", "i", "c">>)
    @@ ("concert" :> <<"c", "o", "n", "c", "e", "r", "t">>)
    @@ ("pubg" :> <<"p", "u", "b", "g">>)
    @@ ("mobile" :> <<"m", "o", "b", "i", "l", "e">>)
    @@ ("pubg mobile" :> <<"p", "u", "b", "g", " ", "m", "o", "b", "i", "l", "e">>)
    @@ ("the" :> <<"t", "h", "e">>)
    @@ ("a" :> <<"a">>)
    @@ ("an" :> <<"a", "n">>)
    @@ ("PUBG MOBILE x BLACKPINK Concert Event" :> <<"P", "U", "B", "G", " ", "M", "O", "B", "I", "L", "E", " ", "x", " ", "B", "L", "A", "C", "K", "P", "I", "N", "K", " ", "C", "o", "n", "c", "e", "r", "t", " ", "E", "v", "e", "n", "t">>)
    @@ ("BLACKPINK Concert" :> <<"B", "L", "A", "C", "K", "P", "I", "N", "K", " ", "C", "o", "n", "c", "e", "r", "t">>)
    @@ ("New Update Patch Notes 2.9" :> <<"N", "e", "w", " ", "U", "p", "d", "a", "t", "e", " ", "P", "a", "t", "c", "h", " ", "N", "o", "t", "e", "s", " ", "2", ".", "9">>)
    @@ ("check out new weapons" :> <<"c", "h", "e", "c", "k", " ", "o", "u", "t", " ", "n", "e", "w", " ", "w", "e", "a", "p", "o", "n", "s">>)
    @@ ("Something Special Coming Soon!!" :> <<"S", "o", "m", "e", "t", "h", "i", "n", "g", " ", "S", "p", "e", "c", "i", "a", "l", " ", "C", "o", "m", "i", "n", "g", " ", "S", "o", "o", "n", "!", "!">>)
    @@ ("Black Pink" :> <<"B", "l", "a", "c", "k", " ", "P", "i", "n", "k">>)
    @@ ("Collaboration with BLACKPINK" :> <<"C", "o", "l", "l", "a", "b", "o", "r", "a", "t", "i", "o", "n", " ", "w", "i", "t", "h", " ", "B", "L", "A", "C", "K", "P", "I", "N", "K">>)
    @@ ("K-pop concert collab" :> <<"K", "-", "p", "o", "p", " ", "c", "o", "n", "c", "e", "r", "t", " ", "c", "o", "l", "l", "a", "b">>)
    @@ ("" :> <<>>)
    @@ ("Anime" :> <<"A", "n", "i", "m", "e">>)
    @@ ("Game" :> <<"G", "a", "m", "e">>)
    @@ ("Movie" :> <<"M", "o", "v", "i", "e">>)
    @@ ("Artist" :> <<"A", "r", "t", "i", "s", "t">>)
    @@ ("Brand" :> <<"B", "r", "a", "n", "d">>)
    @@ ("IP" :> <<"I", "P">>)
    @@ ("Other" :> <<"O", "t", "h", "e", "r">>)
    @@ ("Unknown" :> <<"U", "n", "k", "n", "o", "w", "n">>)
    @@ ("Global" :> <<"G", "l", "o", "b", "a", "l">>)
    @@ ("Collaboration with " :> <<"C", "o", "l", "l", "a", "b", "o", "r", "a", "t", "i", "o", "n", " ", "w", "i", "t", "h", " ">>)
    @@ ("Potential collaboration (partner unidentified)" :> <<"P", "o", "t", "e", "n", "t", "i", "a", "l", " ", "c", "o", "l", "l", "a", "b", "o", "r", "a", "t", "i", "o", "n", " ", "(", "p", "a", "r", "t", "n", "e", "r", " ", "u", "n", "i", "d", "e", "n", "t", "i", "f", "i", "e", "d", ")">>)
    @@ (" " :> <<" ">>)
    @@ ("x" :> <<"x">>)
    @@ ("with" :> <<"w", "i", "t", "h">>)
    @@ ("the walking dead" :> <<"t", "h", "e", " ", "w", "a", "l", "k", "i", "n", "g", " ", "d", "e", "a", "d">>)
    @@ ("metro exodus" :> <<"m", "e", "t", "r", "o", " ", "e", "x", "o", "d", "u", "s">>)
    @@ ("kr" :> <<"k", "r">>)
    @@ ("jp" :> <<"j", "p">>)
    @@ ("na" :> <<"n", "a">>)
    @@ ("eu" :> <<"e", "u">>)
    @@ ("sea" :> <<"s", "e", "a">>)
    @@ ("pubg mobile x blackpink concert event" :> <<"p", "u", "b", "g", " ", "m", "o", "b", "i", "l", "e", " ", "x", " ", "b", "l", "a", "c", "k", "p", "i", "n", "k", " ", "c", "o", "n", "c", "e", "r", "t", " ", "e", "v", "e", "n", "t">>)
    @@ ("blackpink concert" :> <<"b", "l", "a", "c", "k", "p", "i", "n", "k", " ", "c", "o", "n", "c", "e", "r", "t">>)
    @@ ("new update patch notes 2.9" :> <<"n", "e", "w", " ", "u", "p", "d", "a", "t", "e", " ", "p", "a", "t", "c", "h", " ", "n", "o", "t", "e", "s", " ", "2", ".", "9">>)
    @@ ("something special coming soon!!" :> <<"s", "o", "m", "e", "t", "h", "i", "n", "g", " ", "s", "p", "e", "c", "i", "a", "l", " ", "c", "o", "m", "i", "n", "g", " ", "s", "o", "o", "n", "!", "!">>)
    @@ ("collaboration with blackpink" :> <<"c", "o", "l", "l", "a", "b", "o", "r", "a", "t", "i", "o", "n", " ", "w", "i", "t", "h", " ", "b", "l", "a", "c", "k", "p", "i", "n", "k">>)
    @@ ("k-pop concert collab" :> <<"k", "-", "p", "o", "p", " ", "c", "o", "n", "c", "e", "r", "t", " ", "c", "o", "l", "l", "a", "b">>)
    @@ ("game" :> <<"g", "a", "m", "e">>)
    @@ ("brand" :> <<"b", "r", "a", "n", "d">>)
    @@ ("ip" :> <<"i", "p">>)
    @@ ("other" :> <<"o", "t", "h", "e", "r">>)
    @@ ("unknown" :> <<"u", "n", "k", "n", "o", "w", "n">>)
    @@ ("global" :> <<"g", "l", "o", "b", "a", "l">>)
    @@ ("collaboration with " :> <<"c", "o", "l", "l", "a", "b", "o", "r", "a", "t", "i", "o", "n", " ", "w", "i", "t", "h", " ">>)
    @@ ("Collaboration with" :> <<"C", "o", "l", "l", "a", "b", "o", "r", "a", "t", "i", "o", "n", " ", "w", "i", "t", "h">>)
    @@ ("collaboration with" :> <<"c", "o", "l", "l", "a", "b", "o", "r", "a", "t", "i", "o", "n", " ", "w", "i", "t", "h">>)
    @@ ("potential collaboration (partner unidentified)" :> <<"p", "o", "t", "e", "n", "t", "i", "a", "l", " ", "c", "o", "l", "l", "a", "b", "o", "r", "a", "t", "i", "o", "n", " ", "(", "p", "a", "r", "t", "n", "e", "r", " ", "u", "n", "i", "d", "e", "n", "t", "i", "f", "i", "e", "d", ")">>)


    @@ ("Exclusive rewards" :> <<"E", "x", "c", "l", "u", "s", "i", "v", "e", " ", "r", "e", "w", "a", "r", "d", "s">>)
    @@ ("Anime event on the KR Server" :> <<"A", "n", "i", "m", "e", " ", "e", "v", "e", "n", "t", " ", "o", "n", " ", "t", "h", "e", " ", "K", "R", " ", "S", "e", "r", "v", "e", "r">>)
    @@ ("in collaboration with Kong" :> <<"i", "n", " ", "c", "o", "l", "l", "a", "b", "o", "r", "a", "t", "i", "o", "n", " ", "w", "i", "t", "h", " ", "K", "o", "n", "g">>)
    @@ ("Lucky Box | Collab with Arcane" :> <<"L", "u", "c", "k", "y", " ", "B", "o", "x", " ", "|", " ", "C", "o", "l", "l", "a", "b", " ", "w", "i", "t", "h", " ", "A", "r", "c", "a", "n", "e">>)
    @@ ("PUBG MOBILE x PUBG - feat. Kong" :> <<"P", "U", "B", "G", " ", "M", "O", "B", "I", "L", "E", " ", "x", " ", "P", "U", "B", "G", " ", "-", " ", "f", "e", "a", "t", ".", " ", "K", "o", "n", "g">>)
    @@ ("PUBG" :> <<"P", "U", "B", "G">>)
    @@ ("Collaboration with Kong" :> <<"C", "o", "l", "l", "a", "b", "o", "r", "a", "t", "i", "o", "n", " ", "w", "i", "t", "h", " ", "K", "o", "n", "g">>)
    @@ ("collaboration with kong" :> <<"c", "o", "l", "l", "a", "b", "o", "r", "a", "t", "i", "o", "n", " ", "w", "i", "t", "h", " ", "k", "o", "n", "g">>)
    @@ ("PUBG MOBILE x Godzilla - with Kong" :> <<"P", "U", "B", "G", " ", "M", "O", "B", "I", "L", "E", " ", "x", " ", "G", "o", "d", "z", "i", "l", "l", "a", " ", "-", " ", "w", "i", "t", "h", " ", "K", "o", "n", "g">>)
    @@ ("Collaboration with Godzilla" :> <<"C", "o", "l", "l", "a", "b", "o", "r", "a", "t", "i", "o", "n", " ", "w", "i", "t", "h", " ", "G", "o", "d", "z", "i", "l", "l", "a">>)
    @@ ("collaboration with godzilla" :> <<"c", "o", "l", "l", "a", "b", "o", "r", "a", "t", "i", "o", "n", " ", "w", "i", "t", "h", " ", "g", "o", "d", "z", "i", "l", "l", "a">>)
    @@ ("[Metro] Crossover" :> <<"[", "M", "e", "t", "r", "o", "]", " ", "C", "r", "o", "s", "s", "o", "v", "e", "r">>)
    @@ ("Metro" :> <<"M", "e", "t", "r", "o">>)
    @@ ("Collaboration with Metro Exodus" :> <<"C", "o", "l", "l", "a", "b", "o", "r", "a", "t", "i", "o", "n", " ", "w", "i", "t", "h", " ", "M", "e", "t", "r", "o", " ", "E", "x", "o", "d", "u", "s">>)
    @@ ("collaboration with metro exodus" :> <<"c", "o", "l", "l", "a", "b", "o", "r", "a", "t", "i", "o", "n", " ", "w", "i", "t", "h", " ", "m", "e", "t", "r", "o", " ", "e", "x", "o", "d", "u", "s">>)
    @@ ("PUBG MOBILE x Kong and Godzilla Event" :> <<"P", "U", "B", "G", " ", "M", "O", "B", "I", "L", "E", " ", "x", " ", "K", "o", "n", "g", " ", "a", "n", "d", " ", "G", "o", "d", "z", "i", "l", "l", "a", " ", "E", "v", "e", "n", "t">>)
    @@ ("Kong and Godzilla" :> <<"K", "o", "n", "g", " ", "a", "n", "d", " ", "G", "o", "d", "z", "i", "l", "l", "a">>)
    @@ ("kong and godzilla" :> <<"k", "o", "n", "g", " ", "a", "n", "d", " ", "g", "o", "d", "z", "i", "l", "l", "a">>)
    @@ ("PUBG MOBILE x Tesla" :> <<"P", "U", "B", "G", " ", "M", "O", "B", "I", "L", "E", " ", "x", " ", "T", "e", "s", "l", "a">>)
    @@ ("Tesla" :> <<"T", "e", "s", "l", "a">>)
    @@ ("tesla" :> <<"t", "e", "s", "l", "a">>)
    @@ ("Collaboration with Tesla" :> <<"C", "o", "l", "l", "a", "b", "o", "r", "a", "t", "i", "o", "n", " ", "w", "i", "t", "h", " ", "T", "e", "s", "l", "a">>)
    @@ ("collaboration with tesla" :> <<"c", "o", "l", "l", "a", "b", "o", "r", "a", "t", "i", "o", "n", " ", "w", "i", "t", "h", " ", "t", "e", "s", "l", "a">>)
    @@ ("Arcane <U+CF5C><U+B77C><U+BCF4>" :> <<"A", "r", "c", "a", "n", "e", " ", "U+CF5C", "U+B77C", "U+BCF4">>)
    @@ ("Collaboration with Arcane" :> <<"C", "o", "l", "l", "a", "b", "o", "r", "a", "t", "i", "o", "n", " ", "w", "i", "t", "h", " ", "A", "r", "c", "a", "n", "e">>)
    @@ ("collaboration with arcane" :> <<"c", "o", "l", "l", "a", "b", "o", "r", "a", "t", "i", "o", "n", " ", "w", "i", "t", "h", " ", "a", "r", "c", "a", "n", "e">>)
    @@ ("[Arcane] Event" :> <<"[", "A", "r", "c", "a", "n", "e", "]", " ", "E", "v", "e", "n", "t">>)
    @@ ("SPECIAL DROP" :> <<"S", "P", "E", "C", "I", "A", "L", " ", "D", "R", "O", "P">>)
    @@ ("King" :> <<"K", "i", "n", "g">>)
    @@ ("king" :> <<"k", "i", "n", "g">>)
    @@ ("pink " :> <<"p", "i", "n", "k", " ">>)
    @@ ("pink" :> <<"p", "i", "n", "k">>)
    @@ ("Dragon" :> <<"D", "r", "a", "g", "o", "n">>)
    @@ ("dragon" :> <<"d", "r", "a", "g", "o", "n">>)
(***************************************************************************)
(* Python string operations, on character sequences.                       *)
(***************************************************************************)
UpperCase == <<"A", "B", "C", "D", "E", "F", "G", "H", "I", "J", "K", "L", "M",
               "N", "O", "P", "Q", "R", "S", "T", "U", "V", "W", "X", "Y", "Z">>

LowerCase == <<"a", "b", "c", "d", "e", "f", "g", "h", "i", "j", "k", "l", "m",
               "n", "o", "p", "q", "r", "s", "t", "u", "v", "w", "x", "y", "z">>

\* str.lower() on one character
LowerChar(c) ==
    IF \E k \in DOMAIN UpperCase : UpperCase[k] = c
    THEN LowerCase[CHOOSE k \in DOMAIN UpperCase : UpperCase[k] = c]
    ELSE c

\* str.lower()
LowerCs(cs) == [k \in 1..Len(cs) |-> LowerChar(cs[k])]

\* str.strip(): drops leading and trailing whitespace
StripCs(cs) ==
    LET ink == {k \in 1..Len(cs) : cs[k] # " "}
    IN  IF ink = {} THEN <<>>
        ELSE SubSeq(cs, CHOOSE k \in ink : \A j \in ink : k <= j,
                        CHOOSE k \in ink : \A j \in ink : k >= j)

\* a in b, for strings
InCs(a, b) ==
    \E k \in 0..(Len(b) - Len(a)) : SubSeq(b, k + 1, k + Len(a)) = a

\* the string spelled cs
Unspell(cs) == CHOOSE s \in DOMAIN Spell : Spell[s] = cs

\* bool(s) for an Optional[str]
Truthy(s) == s # None /\ s # ""

\* the first of the positions of a list that satisfy a test, as a for loop
\* with break reads it; 0 when there is none
FirstIndex(hits) ==
    IF hits = {} THEN 0 ELSE CHOOSE k \in hits : \A j \in hits : k <= j

collab_keywords ==
    <<"collab", "collaboration", "x ", " x ", "<U+00D7>", "<U+CF5C><U+B77C><U+BCF4>",
      "<U+30B3><U+30E9><U+30DC>", "with ", "featuring", "feat.", "ft.", "crossover",
      "partnership", "limited", "exclusive", "special">>

partner_aliases ==
    <<<<"black pink", "BLACKPINK">>, <<"blackpink", "BLACKPINK">>,
      <<"<U+BE14><U+B799><U+D551><U+D06C>", "BLACKPINK">>, <<"newjeans", "NewJeans">>,
      <<"new jeans", "NewJeans">>, <<"<U+B274><U+C9C4><U+C2A4>", "NewJeans">>,
      <<"lamborghini", "Lamborghini">>, <<"mclaren", "McLaren">>, <<"bugatti", "Bugatti">>,
      <<"koenigsegg", "Koenigsegg">>, <<"jujutsu kaisen", "Jujutsu Kaisen">>,
      <<"<U+C8FC><U+C220><U+D68C><U+C804>", "Jujutsu Kaisen">>,
      <<"dragon ball", "Dragon Ball">>, <<"dragonball", "Dragon Ball">>,
      <<"<U+B4DC><U+B798><U+ACE4><U+BCFC>", "Dragon Ball">>,
      <<"neon genesis evangelion", "Evangelion">>, <<"evangelion", "Evangelion">>,
      <<"<U+C5D0><U+BC18><U+AC8C><U+B9AC><U+C628>", "Evangelion">>,
      <<"attack on titan", "Attack on Titan">>,
      <<"<U+C9C4><U+ACA9><U+C758> <U+AC70><U+C778>", "Attack on Titan">>,
      <<"arcane", "Arcane">>, <<"<U+C544><U+CF00><U+C778>", "Arcane">>,
      <<"the boys", "The Boys">>, <<"godzilla", "Godzilla">>,
      <<"<U+ACE0><U+C9C8><U+B77C>", "Godzilla">>, <<"kong", "Kong">>,
      <<"walking dead", "The Walking Dead">>,
      <<"<U+C6CC><U+D0B9><U+B370><U+B4DC>", "The Walking Dead">>,
      <<"resident evil", "Resident Evil">>,
      <<"<U+B808><U+C9C0><U+B358><U+D2B8> <U+C774><U+BE14>", "Resident Evil">>,
      <<"metro", "Metro Exodus">>, <<"alan walker", "Alan Walker">>,
      <<"<U+C568><U+B7F0> <U+C6CC><U+CEE4>", "Alan Walker">>>>

anime_partners ==
    <<"dragon ball", "jujutsu kaisen", "evangelion", "attack on titan", "naruto",
      "one piece", "demon slayer", "spy x family">>

game_partners ==
    <<"resident evil", "metro", "assassin", "tomb raider", "league of legends", "valorant",
      "fortnite", "call of duty", "apex">>

movie_partners ==
    <<"godzilla", "kong", "arcane", "the boys", "walking dead", "dune", "matrix",
      "john wick", "transformers">>

artist_partners ==
    <<"blackpink", "newjeans", "bts", "alan walker", "marshmello", "dj", "band", "singer">>

brand_partners ==
    <<"lamborghini", "mclaren", "bugatti", "koenigsegg", "aston martin", "ferrari",
      "porsche", "bmw", "mercedes", "audi", "nike", "adidas", "puma", "supreme">>

region_keywords ==
    <<<<"KR", <<"korea", "korean", "<U+D55C><U+AD6D>", "<U+D55C><U+AE00>", "kr server">>>>,
      <<"JP", <<"japan", "japanese", "<U+65E5><U+672C>", "<U+65E5><U+672C><U+8A9E>", "jp server">>>>,
      <<"NA", <<"north america", "usa", "us server", "na server">>>>,
      <<"EU", <<"europe", "european", "eu server">>>>,
      <<"SEA", <<"southeast asia", "sea server", "indonesia", "thailand", "vietnam", "philippines">>>>,
      <<"LATAM", <<"latin america", "latam", "brazil", "mexico", "spanish">>>>,
      <<"MENA", <<"middle east", "mena", "arabic", "arab">>>>>>

anime_hints ==
    <<"anime", "manga", "<U+30A2><U+30CB><U+30E1>", "<U+6F2B><U+753B>">>

movie_hints ==
    <<"movie", "film", "series", "tv show", "<U+C601><U+D654>", "<U+B4DC><U+B77C><U+B9C8>">>

artist_hints ==
    <<"artist", "singer", "band", "music", "concert">>

stopwords ==
    <<"pubg", "mobile", "pubg mobile", "the", "a", "an">>

re_search ==
    ("PUBG MOBILE x BLACKPINK Concert Event" :> <<"BLACKPINK Concert", None, None, None>>)
    @@ ("New Update Patch Notes 2.9" :> <<None, None, None, None>>)
    @@ ("Something Special Coming Soon!!" :> <<None, None, None, None>>)
    @@ ("Lucky Box | Collab with Arcane" :> <<" ", "Arcane", None, None>>)
    @@ ("PUBG MOBILE x PUBG - feat. Kong" :> <<"PUBG", "Kong", None, None>>)
    @@ ("PUBG MOBILE x Godzilla - with Kong" :> <<"Godzilla", "Kong", None, None>>)
    @@ ("[Metro] Crossover" :> <<None, None, "Metro", None>>)
    @@ ("PUBG MOBILE x Kong and Godzilla Event" :> <<"Kong and Godzilla", None, None, None>>)
    @@ ("PUBG MOBILE x Tesla" :> <<"Tesla", None, None, None>>)
    @@ ("Arcane <U+CF5C><U+B77C><U+BCF4>" :> <<None, None, None, "Arcane">>)
    @@ ("[Arcane] Event" :> <<None, None, "Arcane", None>>)
    @@ ("SPECIAL DROP" :> <<None, None, None, None>>)

Contents ==
    {[title |-> "PUBG MOBILE x BLACKPINK Concert Event", description |-> ""],
     [title |-> "New Update Patch Notes 2.9", description |-> "check out new weapons"],
     [title |-> "Something Special Coming Soon!!", description |-> ""]}

(***************************************************************************)
(* clients/gpt_client.py: CollabClassification                             *)
(***************************************************************************)
CollabClassification(is_collab, partner_name, category, region, one_line_summary, confidence) ==
    [is_collab |-> is_collab, partner_name |-> partner_name, category |-> category,
     region |-> region, one_line_summary |-> one_line_summary, confidence |-> confidence]

\* a None where a CollabClassification is expected
NoResult == [none |-> TRUE]

(***************************************************************************)
(* pipeline/classify.py: the rule engine                                   *)
(***************************************************************************)
\* variant: the text keeps the case of the title and the description
TextOf_CaseKept(title, description) == Spell[title] \o <<" ">> \o Spell[description]

\* f"{title} {description}".lower()
TextOf(title, description) == LowerCs(Spell[title] \o <<" ">> \o Spell[description])

\* any(kw in text for kw in keywords)
AnyIn(keywords, text) == \E k \in DOMAIN keywords : InCs(Spell[keywords[k]], text)

has_collab_keyword(text) ==
    \E k \in DOMAIN collab_keywords : InCs(LowerCs(Spell[collab_keywords[k]]), text)

\* match.group(1).strip() of pattern k on the title, None without a match
Candidate(title, k) ==
    IF re_search[title][k] = None THEN None
    ELSE Unspell(StripCs(Spell[re_search[title][k]]))

\* candidate.lower() in ['pubg', 'mobile', 'pubg mobile', 'the', 'a', 'an']
IsStopword(candidate) ==
    \E k \in DOMAIN stopwords : Spell[stopwords[k]] = LowerCs(Spell[candidate])

\* the test of the loop over partner_patterns on the candidate of a pattern
Usable(candidate) == candidate # None /\ ~IsStopword(candidate)

\* partner_name when the loop over partner_patterns ends: the candidate of
\* pattern k, None when no pattern gave one (k = 0)
CandidateAt(title, k) == IF k = 0 THEN None ELSE Candidate(title, k)

\* the loop over partner_patterns: the first match that is not a stopword
ExtractPartner(title) ==
    CandidateAt(title, FirstIndex({j \in 1..Len(re_search[title]) : Usable(Candidate(title, j))}))

\* alias in normalized or normalized in alias
AliasMatches(alias, normalized) ==
    InCs(Spell[alias], normalized) \/ InCs(normalized, Spell[alias])

\* the canonical name of alias k, None when no alias matched (k = 0)
CanonicalAt(k) == IF k = 0 THEN None ELSE partner_aliases[k][2]

\* variant: the last alias that matches decides
FirstAlias_LastMatch(normalized) ==
    LET hits == {j \in 1..Len(partner_aliases) : AliasMatches(partner_aliases[j][1], normalized)}
    IN  IF hits = {} THEN 0 ELSE CHOOSE k \in hits : \A j \in hits : k >= j

\* the loop over partner_aliases.items() with break: the first alias that
\* contains the normalized name or is contained in it
FirstAlias(normalized) ==
    FirstIndex({j \in 1..Len(partner_aliases) : AliasMatches(partner_aliases[j][1], normalized)})

\* the canonical name for name.lower().strip(); None when no alias matches
ResolveAlias(name) == CanonicalAt(FirstAlias(StripCs(LowerCs(Spell[name]))))

\* the chain of tests of _guess_category on partner_name.lower() and the text
CategoryOf(partner_lower, text) ==
    IF AnyIn(anime_partners, partner_lower) THEN "Anime"
    ELSE IF AnyIn(game_partners, partner_lower) THEN "Game"
    ELSE IF AnyIn(movie_partners, partner_lower) THEN "Movie"
    ELSE IF AnyIn(artist_partners, partner_lower) THEN "Artist"
    ELSE IF AnyIn(brand_partners, partner_lower) THEN "Brand"
    ELSE IF AnyIn(anime_hints, text) THEN "Anime"
    ELSE IF AnyIn(movie_hints, text) THEN "Movie"
    ELSE IF AnyIn(artist_hints, text) THEN "Artist"
    ELSE "IP"

guess_category(partner_name, text) == CategoryOf(LowerCs(Spell[partner_name]), text)

\* the region of entry k of region_keywords, Global when no entry matched (k = 0)
RegionAt(k) == IF k = 0 THEN "Global" ELSE region_keywords[k][1]

guess_region(text) ==
    RegionAt(FirstIndex({j \in 1..Len(region_keywords) :
                            AnyIn(region_keywords[j][2], LowerCs(text))}))

\* partner_name after the alias lookup: the canonical name when there is one
Normalized(partner_name, canonical) ==
    IF Truthy(partner_name) /\ canonical # None THEN canonical ELSE partner_name

\* the result for a text and the partner name found in the title
RuleVerdict(text, partner_name) ==
    IF ~has_collab_keyword(text) THEN NoResult
    ELSE IF Truthy(partner_name)
    THEN CollabClassification(TRUE, partner_name,
             guess_category(partner_name, text), guess_region(text),
             Unspell(Spell["Collaboration with "] \o Spell[partner_name]), 85)
    ELSE CollabClassification(TRUE, None, "Other", "Unknown",
             "Potential collaboration (partner unidentified)", 40)

\* the alias lookup on the extracted partner name, skipped for a falsy one
Aliased(extracted) ==
    Normalized(extracted, IF Truthy(extracted) THEN ResolveAlias(extracted) ELSE None)

rule_based_classify(title, description) ==
    RuleVerdict(TextOf(title, description), Aliased(ExtractPartner(title)))

\* the rule engine on every modelled content
RuleResult == [c \in Contents |-> rule_based_classify(c.title, c.description)]

(***************************************************************************)
(* clients/gpt_client.py: the AI classifier's responses                    *)
(***************************************************************************)
\* response.choices[0].message.content, as the remote model may answer
Responses ==
    {"{\"is_collab\": true, \"partner_name\": \"Black Pink\", \"category\": \"Artist\", \"region\": \"KR\", \"one_line_summary\": \"K-pop concert collab\", \"confidence\": 0.95}",
     "{\"is_collab\": true, \"partner_name\": null}",
     "{\"is_collab\": false, \"confidence\": 0.8}",
     "Sorry, I cannot answer in JSON."}

\* json.loads(content): the decoded object, NoResult on a JSONDecodeError
json_loads ==
    ("{\"is_collab\": true, \"partner_name\": \"Black Pink\", \"category\": \"Artist\", \"region\": \"KR\", \"one_line_summary\": \"K-pop concert collab\", \"confidence\": 0.95}"
        :> [is_collab |-> TRUE, partner_name |-> "Black Pink", category |-> "Artist",
            region |-> "KR", one_line_summary |-> "K-pop concert collab", confidence |-> 95])
    @@ ("{\"is_collab\": true, \"partner_name\": null}"
        :> [is_collab |-> TRUE, partner_name |-> None])
    @@ ("{\"is_collab\": false, \"confidence\": 0.8}"
        :> [is_collab |-> FALSE, confidence |-> 80])
    @@ ("Sorry, I cannot answer in JSON." :> NoResult)

\* CollabClassification(**data): absent fields take the model's defaults
FromData(data) ==
    LET Get(field, default) == IF field \in DOMAIN data THEN data[field] ELSE default
    IN  CollabClassification(data.is_collab, Get("partner_name", None), Get("category", None),
            Get("region", None), Get("one_line_summary", None), Get("confidence", 0))

\* json.loads followed by CollabClassification(**data); NoResult stands for
\* the JSONDecodeError / ValueError of the try block
ParseResponse(content) ==
    IF json_loads[content] = NoResult THEN NoResult
    ELSE IF "is_collab" \notin DOMAIN json_loads[content] THEN NoResult
    ELSE FromData(json_loads[content])

\* description[:2000]
DescriptionLimit == 2000

\* variant: a fourth attempt is allowed
MaxAttempts_Four == 3 + 1

\* stop_after_attempt(3)
MaxAttempts == 3

\* f"{title}\n{description_truncated}"
cache_input(title, description) ==
    Spell[title] \o <<"\n">> \o SubSeq(Spell[description], 1,
        IF Len(Spell[description]) < DescriptionLimit
        THEN Len(Spell[description]) ELSE DescriptionLimit)

(***************************************************************************)
(* db/models.py: the video store                                           *)
(***************************************************************************)
\* number of distinct video ids of the model
NumVideos == 2

VideoIds == 1..NumVideos

\* number of operations (fetch_videos, classify_collabs, normalize_partners)
\* a behaviour starts
MaxOps == 4

\* get_collab_videos(days=365)
CollabWindowDays == 365

\* publish day of a video (fixed by the platform); the runs happen on day 500
published_at(v) == IF v = 1 THEN 100 ELSE 400 + v

InLastDays(v, days) == published_at(v) >= 500 - days

\* config.youtube.channels: the ids of the configured channels, in order
Channels == <<"pubgm", "freefire">>

\* Video.source_channel: the channel a video id belongs to (fixed by the platform)
source_channel_of(v) == IF v = 1 THEN "pubgm" ELSE "freefire"

\* --threshold values tried, in hundredths; 50 is the default
Thresholds == {40, 50}

VARIABLES
    videos,      \* table videos: video_id -> row
    gpt_cache,   \* table gpt_cache: cache_input -> output_json
    pc,          \* position of classify_collabs: idle, gpt, low_conf, done
    run,         \* use_gpt, gpt_client, gpt_threshold of the run
    batch,       \* the list `videos` loaded at the start of the run
    idx,         \* position of the loop over gpt_queue
    gpt_queue,   \* video ids waiting for the AI classifier
    attempt,     \* attempt number of the classify_collab call in progress
    stats,       \* the run's statistics
    gpt_calls,   \* video ids classify_collab was called for in this run
    gpt_outcome, \* what classify_collab gave for each of them
    ops,         \* operations started so far (in a command: by its current iteration)
    collab_agg,  \* table collab_agg: (partner_name, date range) -> row
    fetch_progress, \* table fetch_progress: the rows in id order
    call,        \* the single function call a behaviour is about, NoCall otherwise
    cli          \* the command of main.py in progress, Library when the pipeline
                 \* functions are called directly

vars == <<videos, gpt_cache, pc, run, batch, idx, gpt_queue, attempt, stats, gpt_calls,
          gpt_outcome, ops, collab_agg, fetch_progress, call, cli>>

\* the tables the classification pipeline does not touch (fetch_progress is
\* written by fetch_videos and read by resume_fetch only), and the call
other_tables == <<collab_agg, fetch_progress, call>>

\* the variables of the classification pipeline and of the commands
pipeline == <<videos, gpt_cache, pc, run, batch, idx, gpt_queue, attempt, stats, gpt_calls,
              gpt_outcome, ops, cli>>

NoCall == [fn |-> "none"]

\* Video(...) as fetched: the classification block has the model's defaults
NewVideo(content) ==
    [title |-> content.title, description |-> content.description,
     is_collab |-> FALSE, collab_partner |-> None, collab_category |-> None,
     collab_region |-> None, collab_summary |-> None, collab_confidence |-> 0,
     classification_method |-> None]

\* the table after upsert_video(video)
upsert_video(table, video_id, video) == (video_id :> video) @@ table

\* ORDER BY published_at DESC over a set of ids
OrderByPublishedDesc(S) ==
    CHOOSE s \in [1..Cardinality(S) -> S] :
        /\ \A v \in S : \E k \in DOMAIN s : s[k] = v
        /\ \A j, k \in DOMAIN s : j < k => published_at(s[j]) > published_at(s[k])

get_unclassified_videos == {v \in DOMAIN videos : videos[v].classification_method = None}

\* get_all_videos(source_channel=...) as classify_collabs calls it for a
\* reclassification: every stored video, of one channel if one is given. The
\* method of db/models.py takes no source_channel; the one classify_collabs
\* calls is modelled from the specification's reclassification pass.
get_all_videos(source_channel) ==
    {v \in DOMAIN videos : source_channel = None \/ source_channel_of(v) = source_channel}

get_collab_videos ==
    {v \in DOMAIN videos : videos[v].is_collab /\ InLastDays(v, CollabWindowDays)}

EmptyStats ==
    [total_processed |-> 0, rule_classified |-> 0, gpt_classified |-> 0,
     collabs_found |-> 0, non_collabs |-> 0, errors |-> <<>>]

NoRun == [use_gpt |-> FALSE, gpt_client |-> FALSE, gpt_threshold |-> 50]

\* what is kept of the last command that ended, if it was a reclassification
\* of all videos: the table it left, and whether each of its AI calls got an
\* answer that parsed
NoLast == [cmd |-> "none", clean |-> FALSE, videos |-> <<>>]

\* the pipeline functions called directly, outside any command of main.py
Library ==
    [cmd |-> "library", todo |-> <<>>, gpt |-> FALSE, threshold |-> 50,
     reclassify |-> FALSE, finished |-> 0, count |-> 0, seen |-> FALSE,
     clean |-> TRUE, last |-> NoLast]

\* main.py between two commands
NoCommand == [Library EXCEPT !.cmd = "none"]

Init ==
    /\ videos = <<>>
    /\ gpt_cache = <<>>
    /\ pc = "idle"
    /\ run = NoRun
    /\ batch = <<>>
    /\ idx = 1
    /\ gpt_queue = <<>>
    /\ attempt = 1
    /\ stats = EmptyStats
    /\ gpt_calls = {}
    /\ gpt_outcome = <<>>
    /\ ops = 0
    /\ collab_agg = <<>>
    /\ fetch_progress = <<>>
    /\ call = NoCall
    /\ cli = Library

(***************************************************************************)
(* pipeline/fetch.py: fetch_videos                                         *)
(***************************************************************************)
\* variant: the fetched video is written with the defaults of its model
FetchedRow_Defaults(v, content) == NewVideo(content)

\* the row written for one fetched video
FetchedRow(v, content) ==
    IF v \in DOMAIN videos
    THEN [videos[v] EXCEPT !.title = content.title, !.description = content.description]
    ELSE NewVideo(content)

\* the table after the loop of fetch_videos over the fetched videos
Fetched(S, f) ==
    [v \in DOMAIN videos \cup S |-> IF v \in S THEN FetchedRow(v, f[v]) ELSE videos[v]]

\* one fetch_videos call: the platform returns the videos S with contents f
fetch_videos(S, f) ==
    /\ pc = "idle"
    /\ ops < MaxOps
    /\ ops' = ops + 1
    /\ UNCHANGED <<cli, other_tables>>
    /\ videos' = Fetched(S, f)
    /\ UNCHANGED <<gpt_cache, pc, run, batch, idx, gpt_queue, attempt, stats, gpt_calls, gpt_outcome>>

(***************************************************************************)
(* pipeline/classify.py: classify_collabs                                  *)
(***************************************************************************)
\* the in-memory Video of the batch with this id
BatchVideo(v) == batch[CHOOSE k \in DOMAIN batch : batch[k].video_id = v].video

BatchIds == {batch[k].video_id : k \in DOMAIN batch}

\* _rule_based_classify(video.title, video.description or "", config)
RuleOf(video) == RuleResult[[title |-> video.title, description |-> video.description]]

\* variant: the comparison with the threshold is strict
Confident_Strict(result, gpt_threshold) == result # NoResult /\ result.confidence > gpt_threshold

\* result and result.confidence >= gpt_threshold
Confident(result, gpt_threshold) == result # NoResult /\ result.confidence >= gpt_threshold

\* the video with the six fields of a result assigned, and the method
WithResult(video, result, method) ==
    [video EXCEPT !.is_collab = result.is_collab, !.collab_partner = result.partner_name,
                  !.collab_category = result.category, !.collab_region = result.region,
                  !.collab_summary = result.one_line_summary,
                  !.collab_confidence = result.confidence,
                  !.classification_method = method]

\* the video with is_collab, collab_confidence and the method assigned
WithVerdict(video, is_collab, confidence, method) ==
    [video EXCEPT !.is_collab = is_collab, !.collab_confidence = confidence,
                  !.classification_method = method]

\* variant: only collabs are counted
Counted_CollabsOnly(s, is_collab) ==
    IF is_collab THEN [s EXCEPT !.collabs_found = @ + 1] ELSE s

\* stats["collabs_found"] += 1 or stats["non_collabs"] += 1
Counted(s, is_collab) ==
    IF is_collab THEN [s EXCEPT !.collabs_found = @ + 1]
    ELSE [s EXCEPT !.non_collabs = @ + 1]

\* result and result.is_collab, in the else branch of the rule loop
Escalates(result) == result # NoResult /\ result.is_collab

\* variant: the accepted rule result is written without its region
AcceptedVideo_NoRegion(video, result) ==
    [WithResult(video, result, "rule") EXCEPT !.collab_region = video.collab_region]

\* the video as each branch of classify_collabs writes it back
AcceptedVideo(video, result) == WithResult(video, result, "rule")

\* variant: the rejection does not set the confidence
RejectedVideo_KeepsConfidence(video) ==
    [video EXCEPT !.is_collab = FALSE, !.classification_method = "rule"]

RejectedVideo(video) == WithVerdict(video, FALSE, 90, "rule")

\* variant: the AI result is written without its partner
GptVideo_NoPartner(video, result) ==
    [WithResult(video, result, "gpt") EXCEPT !.collab_partner = video.collab_partner]

GptVideo(video, result) == WithResult(video, result, "gpt")

\* variant: the fallback does not set is_collab
FallbackVideo_Unflagged(video) == WithVerdict(video, video.is_collab, 30, "rule_fallback")

FallbackVideo(video) == WithVerdict(video, TRUE, 30, "rule_fallback")

\* the video as the branch without AI classifier writes it back
LowConfVideo(video) == WithVerdict(video, TRUE, 30, "rule_low_conf")

\* one iteration of the rule loop on the entry of a batch, result being the
\* rule engine's answer for it; acc holds the table videos, gpt_queue and stats
RuleStep(acc, entry, result, gpt_threshold) ==
    IF Confident(result, gpt_threshold)
    THEN [acc EXCEPT
             !.videos = upsert_video(@, entry.video_id, AcceptedVideo(entry.video, result)),
             !.stats = [Counted(@, result.is_collab) EXCEPT !.rule_classified = @ + 1,
                                                            !.total_processed = @ + 1]]
    ELSE IF Escalates(result)
    THEN [acc EXCEPT !.gpt_queue = Append(@, entry.video_id),
                     !.stats = [@ EXCEPT !.total_processed = @ + 1]]
    ELSE [acc EXCEPT
             !.videos = upsert_video(@, entry.video_id, RejectedVideo(entry.video)),
             !.stats = [@ EXCEPT !.rule_classified = @ + 1, !.non_collabs = @ + 1,
                                 !.total_processed = @ + 1]]

\* the rule loop over the list from position k on
RECURSIVE RuleLoop(_, _, _, _)
RuleLoop(list, k, acc, gpt_threshold) ==
    IF k > Len(list) THEN acc
    ELSE RuleLoop(list, k + 1,
                  RuleStep(acc, list[k], RuleOf(list[k].video), gpt_threshold), gpt_threshold)

\* variant: the queue is dropped when the AI classifier is not available
AfterRuleLoop_NoLowConf(queue, use_gpt, gpt_client) ==
    IF queue # <<>> /\ use_gpt /\ gpt_client THEN "gpt" ELSE "done"

\* variant: the queue goes to the AI classifier whether or not it is available
AfterRuleLoop_IgnoresClient(queue, use_gpt, gpt_client) ==
    IF queue # <<>> THEN "gpt" ELSE "done"

\* the branch taken after the rule loop
AfterRuleLoop(queue, use_gpt, gpt_client) ==
    IF queue # <<>> /\ use_gpt /\ gpt_client THEN "gpt"
    ELSE IF queue # <<>> THEN "low_conf"
    ELSE "done"

\* variant: the loop over the queue ends after its first video
AfterQueueStep_Break(k, loop) == "done"

\* where the run continues once a queue loop has reached position k
AfterQueueStep(k, loop) == IF k <= Len(gpt_queue) THEN loop ELSE "done"

\* classify_collabs from its entry to the end of the rule loop;
\* api_key is config.gpt.api_key, without which GPTClient() raises ValueError
ClassifyRulePass(use_gpt, api_key, gpt_threshold, reclassify_all, source_channel) ==
    /\ pc = "idle"
    /\ ops < MaxOps
    /\ ops' = ops + 1
    /\ UNCHANGED <<cli, other_tables>>
    /\ LET selected == IF reclassify_all THEN get_all_videos(source_channel)
                       ELSE {v \in get_unclassified_videos :
                                source_channel = None \/ source_channel_of(v) = source_channel}
           ids == OrderByPublishedDesc(selected)
           gpt_client == use_gpt /\ api_key
       IN  \E list \in {[k \in DOMAIN ids |-> [video_id |-> ids[k], video |-> videos[ids[k]]]]} :
           \E after \in {RuleLoop(list, 1, [videos |-> videos, gpt_queue |-> <<>>,
                                            stats |-> EmptyStats], gpt_threshold)} :
               /\ batch' = list
               /\ videos' = after.videos
               /\ gpt_queue' = after.gpt_queue
               /\ stats' = after.stats
               /\ run' = IF selected = {} THEN NoRun
                         ELSE [use_gpt |-> gpt_client, gpt_client |-> gpt_client,
                               gpt_threshold |-> gpt_threshold]
               /\ pc' = IF selected = {} THEN "done"
                        ELSE AfterRuleLoop(after.gpt_queue, gpt_client, gpt_client)
    /\ idx' = 1
    /\ attempt' = 1
    /\ gpt_calls' = {}
    /\ gpt_outcome' = <<>>
    /\ UNCHANGED gpt_cache

(***************************************************************************)
(* classify_collabs, the GPT queue; clients/gpt_client.py: classify_collab *)
(***************************************************************************)
\* variant: the cache is not consulted
CacheLookup_NeverHits(key) == NoResult

\* db.get_gpt_cache(cache_input) parsed, NoResult without a usable entry
CacheLookup(key) ==
    IF key \in DOMAIN gpt_cache /\ Truthy(gpt_cache[key])
    THEN ParseResponse(gpt_cache[key]) ELSE NoResult

\* the cache entry classify_collab returns for this video, NoResult if none
CachedResult(video) == CacheLookup(cache_input(video.title, video.description))

\* the write-back of a classify_collab result, and the loop's next position
PersistGpt(v, video, result) ==
    /\ videos' = upsert_video(videos, v, GptVideo(video, result))
    /\ stats' = [Counted(stats, result.is_collab) EXCEPT !.gpt_classified = @ + 1]
    /\ gpt_calls' = gpt_calls \cup {v}
    /\ gpt_outcome' = (v :> result) @@ gpt_outcome
    /\ idx' = IF idx + 1 <= Len(gpt_queue) THEN idx + 1 ELSE 1
    /\ attempt' = 1
    /\ pc' = AfterQueueStep(idx + 1, "gpt")
    /\ UNCHANGED <<run, batch, gpt_queue>>

\* classify_collab answers from the cache
GptCacheHit ==
    /\ pc = "gpt"
    /\ \E cached \in {CachedResult(BatchVideo(gpt_queue[idx]))} :
           /\ cached # NoResult
           /\ PersistGpt(gpt_queue[idx], BatchVideo(gpt_queue[idx]), cached)
    /\ UNCHANGED gpt_cache
    /\ UNCHANGED <<ops, cli, other_tables>>

\* the remote call answers with content that parses: cached and returned
GptRemoteParsed(content) ==
    /\ pc = "gpt"
    /\ LET v == gpt_queue[idx]
           video == BatchVideo(v)
       IN  /\ CachedResult(video) = NoResult
           /\ ParseResponse(content) # NoResult
           /\ gpt_cache' = (cache_input(video.title, video.description) :> content) @@ gpt_cache
           /\ PersistGpt(v, video, ParseResponse(content))
    /\ UNCHANGED <<ops, cli, other_tables>>

\* "return non-collab with low confidence on parse error"
ParseErrorResult == CollabClassification(FALSE, None, None, None, None, 0)

\* the remote call answers with content that does not parse
GptRemoteMalformed(content) ==
    /\ pc = "gpt"
    /\ LET v == gpt_queue[idx]
           video == BatchVideo(v)
       IN  /\ CachedResult(video) = NoResult
           /\ ParseResponse(content) = NoResult
           /\ PersistGpt(v, video, ParseErrorResult)
    /\ UNCHANGED gpt_cache
    /\ UNCHANGED <<ops, cli, other_tables>>

\* the remote call raises and tenacity starts another attempt
GptRemoteErrorRetry ==
    /\ pc = "gpt"
    /\ CachedResult(BatchVideo(gpt_queue[idx])) = NoResult
    /\ attempt < MaxAttempts
    /\ attempt' = attempt + 1
    /\ gpt_calls' = gpt_calls \cup {gpt_queue[idx]}
    /\ UNCHANGED <<videos, gpt_cache, pc, run, batch, idx, gpt_queue, stats, gpt_outcome>>
    /\ UNCHANGED <<ops, cli, other_tables>>

\* the remote call raises on the last attempt: the except branch of the loop
GptRemoteErrorExhausted ==
    /\ pc = "gpt"
    /\ LET v == gpt_queue[idx]
           video == BatchVideo(v)
       IN  /\ CachedResult(video) = NoResult
           /\ attempt = MaxAttempts
           /\ videos' = upsert_video(videos, v, FallbackVideo(video))
           /\ stats' = [stats EXCEPT !.errors = Append(@, v), !.collabs_found = @ + 1]
           /\ gpt_calls' = gpt_calls \cup {v}
           /\ gpt_outcome' = (v :> NoResult) @@ gpt_outcome
    /\ idx' = IF idx + 1 <= Len(gpt_queue) THEN idx + 1 ELSE 1
    /\ attempt' = 1
    /\ pc' = AfterQueueStep(idx + 1, "gpt")
    /\ UNCHANGED <<gpt_cache, run, batch, gpt_queue>>
    /\ UNCHANGED <<ops, cli, other_tables>>

\* branch "GPT not available, use rule-based results", one video of the queue
LowConfStep ==
    /\ pc = "low_conf"
    /\ LET v == gpt_queue[idx]
       IN  videos' = upsert_video(videos, v, LowConfVideo(BatchVideo(v)))
    /\ stats' = [stats EXCEPT !.rule_classified = @ + 1, !.collabs_found = @ + 1]
    /\ idx' = IF idx + 1 <= Len(gpt_queue) THEN idx + 1 ELSE 1
    /\ pc' = AfterQueueStep(idx + 1, "low_conf")
    /\ UNCHANGED <<gpt_cache, run, batch, gpt_queue, attempt, gpt_calls, gpt_outcome>>
    /\ UNCHANGED <<ops, cli, other_tables>>

\* return stats
Return ==
    /\ pc = "done"
    /\ pc' = "idle"
    /\ run' = NoRun
    /\ batch' = <<>>
    /\ idx' = 1
    /\ gpt_queue' = <<>>
    /\ attempt' = 1
    /\ stats' = EmptyStats
    /\ gpt_calls' = {}
    /\ gpt_outcome' = <<>>
    /\ UNCHANGED <<videos, gpt_cache>>
    /\ UNCHANGED <<ops, cli, other_tables>>

(***************************************************************************)
(* pipeline/classify.py: normalize_partners                                *)
(***************************************************************************)
\* names an AI classifier or an earlier version of the alias table may have
\* left in collab_partner
PartnerInputs ==
    {"Black Pink", "BLACKPINK", "BLACKPINK Concert", "Kong and Godzilla", "Tesla", "King",
     "pink ", "Dragon", "Metro", "The Boys"}

\* every name a stored collab_partner can have: what the rule engine or the
\* AI classifier returns, and the canonical names
PartnerUniverse ==
    {r.partner_name : r \in {RuleResult[c] : c \in Contents} \ {NoResult}}
    \cup {r.partner_name : r \in {ParseResponse(q) : q \in Responses} \ {NoResult}}
    \cup {partner_aliases[k][2] : k \in DOMAIN partner_aliases}
    \cup PartnerInputs

\* the alias lookup of the normalization loop, for every such name
canonical_of == [p \in PartnerUniverse \ {None} |-> ResolveAlias(p)]

\* set(v.collab_partner for v in videos if v.collab_partner)
PartnerNames(collab_videos) ==
    {videos[v].collab_partner : v \in {w \in collab_videos : Truthy(videos[w].collab_partner)}}

\* the entries of a lookup for the names that have one
Matched(lookup, partners) == [p \in {n \in partners : lookup[n] # None} |-> lookup[p]]

\* normalization_map: every partner name that matches an alias, with its canonical name
normalization_map(partners) == Matched(canonical_of, partners)

\* the statistics normalize_partners returns on the stored videos: the size of
\* normalization_map and the number of videos written back
NormalizeStats ==
    LET collab_videos == get_collab_videos
    IN  [partners_normalized |->
             Cardinality(DOMAIN normalization_map(PartnerNames(collab_videos))),
         videos_updated |->
             Cardinality({v \in collab_videos :
                             /\ Truthy(videos[v].collab_partner)
                             /\ canonical_of[videos[v].collab_partner] # None})]

\* variant: the renamed video is written back without its summary
Renamed_DropsSummary(video, map) ==
    [video EXCEPT !.collab_partner = map[@], !.collab_summary = None]

\* video.collab_partner = normalization_map[video.collab_partner]
Renamed(video, map) == [video EXCEPT !.collab_partner = map[@]]

normalize_partners ==
    /\ pc = "idle"
    /\ ops < MaxOps
    /\ ops' = ops + 1
    /\ UNCHANGED <<cli, other_tables>>
    /\ \E collab_videos \in {get_collab_videos} :
       \E map \in {normalization_map(PartnerNames(collab_videos))} :
           videos' = [v \in DOMAIN videos |->
                         IF v \in collab_videos /\ videos[v].collab_partner \in DOMAIN map
                         THEN Renamed(videos[v], map)
                         ELSE videos[v]]
    /\ UNCHANGED <<gpt_cache, pc, run, batch, idx, gpt_queue, attempt, stats, gpt_calls, gpt_outcome>>

Next ==
    \/ \E S \in SUBSET VideoIds : \E f \in [S -> Contents] : fetch_videos(S, f)
    \/ \E use_gpt \in BOOLEAN, api_key \in BOOLEAN, gpt_threshold \in Thresholds,
          reclassify_all \in BOOLEAN :
            ClassifyRulePass(use_gpt, api_key, gpt_threshold, reclassify_all, None)
    \/ GptCacheHit
    \/ \E content \in Responses : GptRemoteParsed(content)
    \/ \E content \in Responses : GptRemoteMalformed(content)
    \/ GptRemoteErrorRetry
    \/ GptRemoteErrorExhausted
    \/ LowConfStep
    \/ Return
    \/ normalize_partners

Spec == Init /\ [][Next]_vars

(***************************************************************************)
(* classify_collabs when db.upsert_video raises (a locked or full database) *)
(***************************************************************************)
\* the rule loop writes this entry back: both branches but the one that queues
WritesBack(entry, gpt_threshold) ==
    \E result \in {RuleOf(entry.video)} :
        Confident(result, gpt_threshold) \/ ~Escalates(result)

\* classify_collabs whose n-th write-back of the rule loop raises: the loop has
\* no handler, so the exception leaves classify_collabs after the videos
\* before position n
ClassifyRulePassFails(use_gpt, api_key, gpt_threshold, reclassify_all, n) ==
    /\ pc = "idle"
    /\ ops < MaxOps
    /\ ops' = ops + 1
    /\ UNCHANGED <<cli, other_tables>>
    /\ LET selected == IF reclassify_all THEN get_all_videos(None) ELSE get_unclassified_videos
           ids == OrderByPublishedDesc(selected)
           gpt_client == use_gpt /\ api_key
       IN  \E list \in {[k \in DOMAIN ids |-> [video_id |-> ids[k], video |-> videos[ids[k]]]]} :
               /\ n \in DOMAIN list
               /\ WritesBack(list[n], gpt_threshold)
               /\ \E after \in {RuleLoop(SubSeq(list, 1, n - 1), 1,
                                          [videos |-> videos, gpt_queue |-> <<>>,
                                           stats |-> EmptyStats], gpt_threshold)} :
                      /\ batch' = list
                      /\ videos' = after.videos
                      /\ gpt_queue' = after.gpt_queue
                      /\ stats' = after.stats
               /\ run' = [use_gpt |-> gpt_client, gpt_client |-> gpt_client,
                          gpt_threshold |-> gpt_threshold]
    /\ pc' = "raised"
    /\ idx' = 1
    /\ attempt' = 1
    /\ gpt_calls' = {}
    /\ gpt_outcome' = <<>>
    /\ UNCHANGED gpt_cache

\* the remote call answers with content that parses, and the write-back in the
\* try block raises: the handler records the error and writes the video, which
\* already carries the fields of the result, as rule_fallback
GptWriteBackFails(content) ==
    /\ pc = "gpt"
    /\ LET v == gpt_queue[idx]
           video == BatchVideo(v)
       IN  /\ CachedResult(video) = NoResult
           /\ ParseResponse(content) # NoResult
           /\ gpt_cache' = (cache_input(video.title, video.description) :> content) @@ gpt_cache
           /\ videos' = upsert_video(videos, v, FallbackVideo(GptVideo(video, ParseResponse(content))))
           /\ stats' = [stats EXCEPT !.errors = Append(@, v), !.collabs_found = @ + 1]
           /\ gpt_calls' = gpt_calls \cup {v}
           /\ gpt_outcome' = (v :> ParseResponse(content)) @@ gpt_outcome
    /\ idx' = IF idx + 1 <= Len(gpt_queue) THEN idx + 1 ELSE 1
    /\ attempt' = 1
    /\ pc' = AfterQueueStep(idx + 1, "gpt")
    /\ UNCHANGED <<run, batch, gpt_queue>>
    /\ UNCHANGED <<ops, cli, other_tables>>

\* the exception leaves classify_collabs: no statistics are returned
Propagate ==
    /\ pc = "raised"
    /\ pc' = "idle"
    /\ run' = NoRun
    /\ batch' = <<>>
    /\ idx' = 1
    /\ gpt_queue' = <<>>
    /\ attempt' = 1
    /\ stats' = EmptyStats
    /\ gpt_calls' = {}
    /\ gpt_outcome' = <<>>
    /\ UNCHANGED <<videos, gpt_cache>>
    /\ UNCHANGED <<ops, cli, other_tables>>

NextFaulty ==
    \/ Next
    \/ \E use_gpt \in BOOLEAN, api_key \in BOOLEAN, gpt_threshold \in Thresholds,
          reclassify_all \in BOOLEAN, n \in 1..NumVideos :
            ClassifyRulePassFails(use_gpt, api_key, gpt_threshold, reclassify_all, n)
    \/ \E content \in Responses : GptWriteBackFails(content)
    \/ Propagate

SpecFaulty == Init /\ [][NextFaulty]_vars

(***************************************************************************)
(* main.py: the commands fetch, classify and run                           *)
(***************************************************************************)
\* number of commands a behaviour starts
MaxCmds == 3

\* --channel of fetch and run: the channels the command loops over
ChannelsOf(channel) == IF channel = "all" THEN Channels ELSE <<channel>>

\* variant: the partner names are normalized before the videos are classified
Steps_NormalizeFirst(cmd) ==
    IF cmd = "run" THEN <<"fetch_videos", "normalize_partners", "classify_collabs">>
    ELSE IF cmd = "classify" THEN <<"normalize_partners", "classify_collabs">>
    ELSE IF cmd = "fetch" THEN <<"fetch_videos">>
    ELSE <<>>

\* the calls one iteration of a command makes into the pipeline, in order
Steps(cmd) ==
    IF cmd = "run" THEN <<"fetch_videos", "classify_collabs", "normalize_partners">>
    ELSE IF cmd = "classify" THEN <<"classify_collabs", "normalize_partners">>
    ELSE IF cmd = "fetch" THEN <<"fetch_videos">>
    ELSE <<>>

\* the call the command in progress makes next, "end" after the last one
NextCall ==
    LET steps == Steps(cli.cmd)
    IN  IF ops < Len(steps) THEN steps[ops + 1] ELSE "end"

InCommand == cli.cmd \in {"fetch", "classify", "run"}

\* entering a command with its options; --gpt/--no-gpt (with the API key that
\* validate_config looks for) and --threshold are those of the behaviour
Enter(cmd, todo, reclassify) ==
    /\ pc = "idle"
    /\ cli.count < MaxCmds
    /\ cli' = [cli EXCEPT !.cmd = cmd, !.todo = todo, !.reclassify = reclassify,
                          !.finished = 0, !.count = @ + 1, !.seen = FALSE, !.clean = TRUE]
    /\ ops' = 0
    /\ UNCHANGED <<videos, gpt_cache, pc, run, batch, idx, gpt_queue, attempt, stats,
                   gpt_calls, gpt_outcome, other_tables>>

\* fetch --channel
StartFetch(channel) ==
    /\ cli.cmd = "none"
    /\ Enter("fetch", ChannelsOf(channel), FALSE)

\* classify --reclassify --channel
StartClassify(reclassify, channel) ==
    /\ cli.cmd = "none"
    /\ Enter("classify", <<channel>>, reclassify)

\* run --channel; classify_collabs is called with reclassify_all False
StartRun(channel) ==
    /\ cli.cmd = "none"
    /\ Enter("run", ChannelsOf(channel), FALSE)

\* fetch_videos(..., source_channel=ch.id): the platform returns videos of the
\* channel, those already stored with the title and description they have
CliFetch ==
    /\ InCommand
    /\ NextCall = "fetch_videos"
    /\ \E S \in SUBSET {v \in VideoIds : source_channel_of(v) = Head(cli.todo)} :
       \E f \in [S -> Contents] :
           /\ \A v \in S \cap DOMAIN videos :
                  f[v] = [title |-> videos[v].title, description |-> videos[v].description]
           /\ fetch_videos(S, f)

\* classify_collabs(db, use_gpt, gpt_threshold, reclassify_all, source_channel)
CliClassify ==
    /\ InCommand
    /\ NextCall = "classify_collabs"
    /\ ClassifyRulePass(cli.gpt, cli.gpt, IF cli.cmd = "run" THEN 50 ELSE cli.threshold,
                        cli.reclassify, Head(cli.todo))

\* the command takes note of the classification that is about to return:
\* whether each AI call was answered from the cache or by a response that parsed
CliObserve ==
    /\ InCommand
    /\ pc = "done"
    /\ ~cli.seen
    /\ cli' = [cli EXCEPT !.seen = TRUE,
                          !.clean = @ /\ \A v \in DOMAIN gpt_outcome :
                                             gpt_outcome[v] \notin {NoResult, ParseErrorResult}]
    /\ UNCHANGED <<videos, gpt_cache, pc, run, batch, idx, gpt_queue, attempt, stats,
                   gpt_calls, gpt_outcome, ops, other_tables>>

\* stats = classify_collabs(...)
CliReturn ==
    /\ InCommand
    /\ cli.seen
    /\ Return

\* normalize_partners(db)
CliNormalize ==
    /\ InCommand
    /\ NextCall = "normalize_partners"
    /\ normalize_partners

\* classify --reclassify without --channel
ReclassifiesAll == cli.cmd = "classify" /\ cli.reclassify /\ cli.todo = <<None>>

\* the end of one iteration: the next channel of the loop, or the end of the command
EndIteration ==
    /\ InCommand
    /\ pc = "idle"
    /\ NextCall = "end"
    /\ ops' = 0
    /\ cli' = IF Len(cli.todo) > 1
              THEN [cli EXCEPT !.todo = Tail(@), !.finished = @ + 1, !.seen = FALSE]
              ELSE [NoCommand EXCEPT
                       !.gpt = cli.gpt, !.threshold = cli.threshold, !.count = cli.count,
                       !.last = IF ReclassifiesAll
                                THEN [cmd |-> cli.cmd, clean |-> cli.clean, videos |-> videos]
                                ELSE NoLast]
    /\ UNCHANGED <<videos, gpt_cache, pc, run, batch, idx, gpt_queue, attempt, stats,
                   gpt_calls, gpt_outcome, other_tables>>

InitCli ==
    /\ videos = <<>>
    /\ gpt_cache = <<>>
    /\ pc = "idle"
    /\ run = NoRun
    /\ batch = <<>>
    /\ idx = 1
    /\ gpt_queue = <<>>
    /\ attempt = 1
    /\ stats = EmptyStats
    /\ gpt_calls = {}
    /\ gpt_outcome = <<>>
    /\ ops = 0
    /\ collab_agg = <<>>
    /\ fetch_progress = <<>>
    /\ call = NoCall
    /\ \E gpt \in BOOLEAN, gpt_api \in BOOLEAN, threshold \in Thresholds :
           cli = [NoCommand EXCEPT !.gpt = gpt /\ gpt_api, !.threshold = threshold]

NextCli ==
    \/ \E channel \in {"pubgm", "freefire", "all"} : StartFetch(channel)
    \/ \E reclassify \in BOOLEAN, channel \in {None, "pubgm", "freefire"} :
            StartClassify(reclassify, channel)
    \/ \E channel \in {"pubgm", "freefire", "all"} : StartRun(channel)
    \/ CliFetch
    \/ CliClassify
    \/ GptCacheHit
    \/ \E content \in Responses : GptRemoteParsed(content)
    \/ \E content \in Responses : GptRemoteMalformed(content)
    \/ GptRemoteErrorRetry
    \/ GptRemoteErrorExhausted
    \/ LowConfStep
    \/ CliObserve
    \/ CliReturn
    \/ CliNormalize
    \/ EndIteration

SpecCli == InitCli /\ [][NextCli]_vars

(***************************************************************************)
(* pipeline/aggregate.py: aggregate_collabs and _calculate_partner_metrics *)
(* (the comment counters and the top videos of a row are left out)         *)
(***************************************************************************)
\* Video.view_count and Video.like_count of a stored video (fixed by the platform)
view_count(v) == 100 * v

like_count(v) == 10 * v

\* date.today() and date.today() - timedelta(days=days), as day numbers
end_date == 500

start_date(days) == end_date - days

RECURSIVE Gcd(_, _)
Gcd(a, b) == IF b = 0 THEN a ELSE Gcd(b, a % b)

\* a / b for integers a >= 0 and b > 0: the exact quotient in lowest terms
\* (the code keeps the nearest float)
TrueDiv(a, b) == [num |-> a \div Gcd(a, b), den |-> b \div Gcd(a, b)]

\* variant: floor division
Rate_Floored(total, base) == IF base > 0 THEN TrueDiv(total \div base, 1) ELSE TrueDiv(0, 1)

\* total / base if base > 0 else 0
Rate(total, base) == IF base > 0 THEN TrueDiv(total, base) ELSE TrueDiv(0, 1)

RECURSIVE Sum(_)
Sum(numbers) == IF numbers = <<>> THEN 0 ELSE Head(numbers) + Sum(Tail(numbers))

\* the values max(set(values), key=values.count) can give, values being the
\* truthy entries of a list: the most frequent ones (which of several is left
\* to the iteration order of the set), the default when there is none
MostCommon(values, default) ==
    LET truthy == {k \in DOMAIN values : Truthy(values[k])}
        count(x) == Cardinality({k \in truthy : values[k] = x})
    IN  IF truthy = {} THEN {default}
        ELSE {values[k] : k \in {j \in truthy :
                                    \A i \in truthy : count(values[i]) <= count(values[j])}}

\* the CollabAgg of a partner over its list of videos, given which of the most
\* common categories and regions max() picked
calculate_partner_metrics(partner_name, vids, category, region) ==
    LET total_views == Sum([k \in DOMAIN vids |-> vids[k].view_count])
        total_video_likes == Sum([k \in DOMAIN vids |-> vids[k].like_count])
    IN  [partner_name |-> partner_name, category |-> category, region |-> region,
         video_count |-> Len(vids), total_views |-> total_views,
         total_video_likes |-> total_video_likes,
         avg_views |-> Rate(total_views, Len(vids)),
         avg_video_likes |-> Rate(total_video_likes, Len(vids)),
         like_rate |-> Rate(total_video_likes, total_views)]

\* video.collab_partner or "Unknown"
PartnerKey(v) ==
    IF Truthy(videos[v].collab_partner) THEN videos[v].collab_partner ELSE "Unknown"

\* partner_videos[partner]: the videos of a partner as _calculate_partner_metrics reads them
PartnerVideos(collab, partner) ==
    LET ids == OrderByPublishedDesc({v \in collab : PartnerKey(v) = partner})
    IN  [k \in DOMAIN ids |->
            [view_count |-> view_count(ids[k]), like_count |-> like_count(ids[k]),
             collab_category |-> videos[ids[k]].collab_category,
             collab_region |-> videos[ids[k]].collab_region]]

\* the rows one run computes: one per partner of the collab videos in range
ComputedRows(collab, days) ==
    LET partners == {PartnerKey(v) : v \in collab}
        row(p, vids) ==
            {calculate_partner_metrics(p, vids, category, region) :
                 category \in MostCommon([k \in DOMAIN vids |-> vids[k].collab_category], "Other"),
                 region \in MostCommon([k \in DOMAIN vids |-> vids[k].collab_region], "Unknown")}
    IN  {rows \in [{<<p, start_date(days), end_date>> : p \in partners}
                       -> UNION {row(p, PartnerVideos(collab, p)) : p \in partners}] :
            \A key \in DOMAIN rows : rows[key] \in row(key[1], PartnerVideos(collab, key[1]))}

\* aggregate_collabs(db, days): upsert_collab_agg writes each computed row
\* under its key (partner_name, date_range_start, date_range_end)
aggregate_collabs(days) ==
    /\ pc = "idle"
    /\ \E rows \in ComputedRows(get_collab_videos, days) :
           collab_agg' = rows @@ collab_agg
    /\ UNCHANGED <<pipeline, fetch_progress, call>>

NextAggregate ==
    \/ Next
    \/ aggregate_collabs(CollabWindowDays)

SpecAggregate == Init /\ [][NextAggregate]_vars

(***************************************************************************)
(* pipeline/fetch.py with its progress records: fetch_videos,              *)
(* fetch_comments (the comments themselves are left out) and resume_fetch  *)
(***************************************************************************)
\* the row create_progress inserts, with the status the task leaves it in;
\* target_id is <<>> for NULL and <<video_id>> for a video
ProgressRow(task_type, target_id, status) ==
    [task_type |-> task_type, target_id |-> target_id, status |-> status]

\* the ids of the incomplete rows of a task type in a table
Incomplete(table, task_type) ==
    {id \in DOMAIN table : /\ table[id].task_type = task_type
                           /\ table[id].status \in {"pending", "in_progress"}}

get_incomplete_progress(task_type) == Incomplete(fetch_progress, task_type)

\* fetch_videos with its progress row: the videos S were written when the pass
\* ended, completed, failed (the exception is raised again) or, the process
\* being stopped before either update, still in_progress
tracked_fetch_videos(S, f, status) ==
    /\ videos' = Fetched(S, f)
    /\ fetch_progress' = Append(fetch_progress, ProgressRow("videos", <<>>, status))

\* the rows of a fetch_comments pass over the target videos: completed, or
\* left in_progress where upsert_comments_batch raised
CommentRows(targets, failing) ==
    [k \in DOMAIN targets |->
        ProgressRow("comments", <<targets[k]>>,
                    IF targets[k] \in failing THEN "in_progress" ELSE "completed")]

\* fetch_comments(db, video_ids=targets)
fetch_comments(targets, failing) ==
    /\ fetch_progress' = fetch_progress \o CommentRows(targets, failing)
    /\ UNCHANGED videos

\* [p.target_id for p in incomplete if p.target_id], in the order of the rows
RECURSIVE TargetsOf(_, _)
TargetsOf(table, ids) ==
    IF ids = {} THEN <<>>
    ELSE LET first == CHOOSE id \in ids : \A other \in ids : id <= other
         IN  table[first].target_id \o TargetsOf(table, ids \ {first})

\* resume_fetch(db, task_type): what the resumed pass meets is S, f, status for
\* videos and failing for comments
resume_fetch(task_type, S, f, status, failing) ==
    LET incomplete == get_incomplete_progress(task_type)
    IN  IF incomplete = {} THEN UNCHANGED <<videos, fetch_progress>>
        ELSE IF task_type = "videos" THEN tracked_fetch_videos(S, f, status)
        ELSE fetch_comments(TargetsOf(fetch_progress, incomplete), failing)

\* the frame of a call of pipeline/fetch.py, one of the calls of a behaviour
FetchFrame ==
    /\ ops' = ops + 1
    /\ UNCHANGED <<gpt_cache, pc, run, batch, idx, gpt_queue, attempt, stats, gpt_calls,
                   gpt_outcome, cli, collab_agg, call>>

FetchVideos ==
    /\ ops < MaxOps
    /\ \E S \in SUBSET VideoIds : \E f \in [S -> Contents] :
       \E status \in {"completed", "failed", "in_progress"} :
           tracked_fetch_videos(S, f, status)
    /\ FetchFrame

FetchComments ==
    /\ ops < MaxOps
    /\ \E failing \in SUBSET DOMAIN videos :
           fetch_comments(OrderByPublishedDesc(DOMAIN videos), failing)
    /\ FetchFrame

ResumeFetch ==
    /\ ops < MaxOps
    /\ \E task_type \in {"videos", "comments"} :
       \E S \in SUBSET VideoIds : \E f \in [S -> Contents] :
       \E status \in {"completed", "failed", "in_progress"}, failing \in SUBSET DOMAIN videos :
           resume_fetch(task_type, S, f, status, failing)
    /\ FetchFrame

NextFetch ==
    \/ FetchVideos
    \/ FetchComments
    \/ ResumeFetch

SpecFetch == Init /\ [][NextFetch]_vars

(***************************************************************************)
(* The rule engine, the alias lookup of the normalizer, the metrics of a    *)
(* partner and the upload as functions: one call on a title and a          *)
(* description, on a set of partner names, on the list of a partner's      *)
(* videos, or on a list of files                                           *)
(***************************************************************************)
\* titles, left as the platform gives them
Titles ==
    {"PUBG MOBILE x BLACKPINK Concert Event", "New Update Patch Notes 2.9",
     "Something Special Coming Soon!!", "Lucky Box | Collab with Arcane",
     "PUBG MOBILE x PUBG - feat. Kong", "PUBG MOBILE x Godzilla - with Kong",
     "[Metro] Crossover", "PUBG MOBILE x Kong and Godzilla Event", "PUBG MOBILE x Tesla",
     "Arcane <U+CF5C><U+B77C><U+BCF4>", "[Arcane] Event", "SPECIAL DROP"}

Descriptions ==
    {"", "check out new weapons", "Exclusive rewards", "Anime event on the KR Server",
     "in collaboration with Kong"}

\* number of distinct partner names among the stored collab videos
MaxPartners == 2

\* number of collab videos of one partner
MaxGroup == 3

\* the videos a partner's group is made of: views, likes and the category and
\* region of the classification
GroupVideos ==
    {[view_count |-> 100, like_count |-> 10, collab_category |-> "Artist", collab_region |-> "KR"],
     [view_count |-> 200, like_count |-> 20, collab_category |-> "Artist", collab_region |-> None],
     [view_count |-> 300, like_count |-> 30, collab_category |-> "Anime", collab_region |-> "KR"],
     [view_count |-> 0, like_count |-> 0, collab_category |-> None, collab_region |-> None],
     [view_count |-> 0, like_count |-> 5, collab_category |-> "Anime", collab_region |-> "JP"]}

\* number of files handed to upload_to_cloud
MaxFiles == 2

\* what becomes of a file: it does not exist, upload_file succeeds, or
\* upload_file returns success False (the request failed or raised)
FileKinds == {"missing", "accepted", "refused"}

\* results["uploaded"] and results["failed"] after the loop over the files
\* (paths are the positions in the list)
Reported(files, kinds) ==
    LET entries == [k \in DOMAIN files |-> [path |-> k, kind |-> files[k]]]
        Listed(entry) == entry.kind \in kinds
    IN  SelectSeq(entries, Listed)

\* upload_to_cloud(files) with a cloud client that is configured or not
upload_to_cloud(configured, files) ==
    IF ~configured THEN [success |-> FALSE, error |-> "Cloud client not configured"]
    ELSE [success |-> Reported(files, {"missing", "refused"}) = <<>>,
          uploaded |-> Reported(files, {"accepted"}),
          failed |-> Reported(files, {"missing", "refused"})]

\* the classification pipeline at rest on an empty store
AtRest ==
    /\ videos = <<>>
    /\ gpt_cache = <<>>
    /\ pc = "idle"
    /\ run = NoRun
    /\ batch = <<>>
    /\ idx = 1
    /\ gpt_queue = <<>>
    /\ attempt = 1
    /\ stats = EmptyStats
    /\ gpt_calls = {}
    /\ gpt_outcome = <<>>
    /\ ops = 0
    /\ cli = Library

InitFunctions ==
    /\ AtRest
    /\ collab_agg = <<>>
    /\ fetch_progress = <<>>
    /\ \/ \E title \in Titles, description \in Descriptions :
              call = [fn |-> "_rule_based_classify", title |-> title,
                      description |-> description, returned |-> FALSE]
       \/ \E partners \in SUBSET PartnerInputs :
              /\ Cardinality(partners) <= MaxPartners
              /\ call = [fn |-> "normalization_map", partners |-> partners,
                         returned |-> FALSE]
       \/ \E n \in 1..MaxGroup : \E vids \in [1..n -> GroupVideos] :
              call = [fn |-> "_calculate_partner_metrics", videos |-> vids,
                      returned |-> FALSE]
       \/ \E command \in {"export", "upload"}, configured \in BOOLEAN, n \in 0..MaxFiles :
          \E files \in [1..n -> FileKinds] :
              call = [fn |-> "upload_to_cloud", command |-> command,
                      configured |-> configured, files |-> files, returned |-> FALSE]

\* result = _rule_based_classify(video.title, video.description, config)
RuleCall ==
    /\ call.fn = "_rule_based_classify"
    /\ ~call.returned
    /\ call' = [call EXCEPT !.returned = TRUE]
                  @@ [result |-> rule_based_classify(call.title, call.description)]
    /\ UNCHANGED <<pipeline, collab_agg, fetch_progress>>

\* the loop of normalize_partners that builds normalization_map
NormalizationCall ==
    /\ call.fn = "normalization_map"
    /\ ~call.returned
    /\ call' = [call EXCEPT !.returned = TRUE]
                  @@ [result |-> normalization_map(call.partners)]
    /\ UNCHANGED <<pipeline, collab_agg, fetch_progress>>

\* agg = _calculate_partner_metrics(db, partner_name, videos, ...)
MetricsCall ==
    /\ call.fn = "_calculate_partner_metrics"
    /\ ~call.returned
    /\ \E category \in MostCommon([k \in DOMAIN call.videos |->
                                        call.videos[k].collab_category], "Other"),
          region \in MostCommon([k \in DOMAIN call.videos |->
                                      call.videos[k].collab_region], "Unknown") :
           call' = [call EXCEPT !.returned = TRUE]
                      @@ [result |-> calculate_partner_metrics("BLACKPINK", call.videos,
                                                               category, region)]
    /\ UNCHANGED <<pipeline, collab_agg, fetch_progress>>

\* results = upload_to_cloud(files) in the commands export --upload and upload;
\* upload exits before the call when validate_config finds no cloud API
UploadCall ==
    /\ call.fn = "upload_to_cloud"
    /\ ~call.returned
    /\ call.command = "upload" => call.configured
    /\ call' = [call EXCEPT !.returned = TRUE]
                  @@ [result |-> upload_to_cloud(call.configured, call.files),
                      command_ended |-> "no"]
    /\ UNCHANGED <<pipeline, collab_agg, fetch_progress>>

\* the command reads results["uploaded"] (upload: and results["failed"]) and
\* completes, or ends with the KeyError of a missing key
CommandReads ==
    /\ call.fn = "upload_to_cloud"
    /\ call.returned
    /\ call.command_ended = "no"
    /\ call' = [call EXCEPT !.command_ended =
                    IF {"uploaded", "failed"} \subseteq DOMAIN call.result \/
                       (call.command = "export" /\ "uploaded" \in DOMAIN call.result)
                    THEN "complete" ELSE "KeyError"]
    /\ UNCHANGED <<pipeline, collab_agg, fetch_progress>>

NextFunctions ==
    \/ RuleCall
    \/ NormalizationCall
    \/ MetricsCall
    \/ UploadCall
    \/ CommandReads

SpecFunctions == InitFunctions /\ [][NextFunctions]_vars

(***************************************************************************)
(* Properties                                                              *)
(***************************************************************************)
\* the classification block of a stored video
Block(video) ==
    [is_collab |-> video.is_collab, collab_partner |-> video.collab_partner,
     collab_category |-> video.collab_category, collab_region |-> video.collab_region,
     collab_summary |-> video.collab_summary, collab_confidence |-> video.collab_confidence,
     classification_method |-> video.classification_method]

\* the block that carries a result field for field, under a method
ResultBlock(result, method) ==
    [is_collab |-> result.is_collab, collab_partner |-> result.partner_name,
     collab_category |-> result.category, collab_region |-> result.region,
     collab_summary |-> result.one_line_summary, collab_confidence |-> result.confidence,
     classification_method |-> method]

QueuedIds == {gpt_queue[k] : k \in DOMAIN gpt_queue}

\* the rule engine's result for a video of the running batch
BatchRule(v) == RuleResult[[title |-> BatchVideo(v).title, description |-> BatchVideo(v).description]]

\* C1: when classify_collabs has returned, every video of its batch has a
\* classification_method among rule, gpt, rule_fallback, rule_low_conf, never null.
C1_NoVideoLeftUnclassified ==
    pc = "done" =>
        \A v \in BatchIds :
            videos[v].classification_method \in {"rule", "gpt", "rule_fallback", "rule_low_conf"}

\* a pass over two unclassified videos, one settled by the rules and one escalated
C1_Witness ==
    /\ pc = "done"
    /\ \E v, w \in BatchIds :
        /\ BatchVideo(v).classification_method = None
        /\ BatchVideo(w).classification_method = None
        /\ videos[v].classification_method = "rule"
        /\ videos[w].classification_method \in {"gpt", "rule_fallback", "rule_low_conf"}

\* C2: classify_collab is called for a video only if its rule result is non-null,
\* is_collab and of confidence strictly below the threshold.
C2_AiOnlyBelowThreshold ==
    \A v \in gpt_calls :
        /\ BatchRule(v) # NoResult
        /\ BatchRule(v).is_collab
        /\ BatchRule(v).confidence < run.gpt_threshold

\* the AI classifier was called for one video and not for a video of the same
\* batch whose rule result is null or at least at the threshold
C2_Witness ==
    /\ pc = "done"
    /\ gpt_calls # {}
    /\ \E v \in BatchIds \ gpt_calls :
        BatchRule(v) = NoResult \/ BatchRule(v).confidence >= run.gpt_threshold

\* C3: a video for which the rule engine returns null is persisted with
\* is_collab false, confidence 0.9 and method rule, and is never queued for the AI.
C3_NullIsRejected ==
    pc # "idle" =>
        \A v \in BatchIds :
            BatchRule(v) = NoResult =>
                /\ videos[v].is_collab = FALSE
                /\ videos[v].collab_confidence = 90
                /\ videos[v].classification_method = "rule"
                /\ v \notin QueuedIds
                /\ v \notin gpt_calls

\* a video without trigger keyword was rejected while another one was queued
C3_Witness ==
    /\ pc = "done"
    /\ QueuedIds # {}
    /\ \E v \in BatchIds : BatchRule(v) = NoResult /\ videos[v].classification_method = "rule"

\* C4: a rule result of confidence at least gpt_threshold is persisted field for
\* field, with method rule.
C4_AcceptRuleVerbatim ==
    pc # "idle" =>
        \A v \in BatchIds :
            (BatchRule(v) # NoResult /\ BatchRule(v).confidence >= run.gpt_threshold) =>
                Block(videos[v]) = ResultBlock(BatchRule(v), "rule")

\* a confident rule result with a partner was persisted
C4_Witness ==
    /\ pc = "done"
    /\ \E v \in BatchIds :
        /\ BatchRule(v) # NoResult
        /\ BatchRule(v).confidence >= run.gpt_threshold
        /\ videos[v].collab_partner = "BLACKPINK"

\* C5: the result of a successful classify_collab call is persisted field for
\* field, with method gpt.
C5_GptVerbatim ==
    \A v \in DOMAIN gpt_outcome :
        gpt_outcome[v] # NoResult => Block(videos[v]) = ResultBlock(gpt_outcome[v], "gpt")

\* an AI result naming a partner was persisted
C5_Witness ==
    \E v \in DOMAIN gpt_outcome :
        /\ gpt_outcome[v] # NoResult
        /\ gpt_outcome[v].partner_name = "Black Pink"
        /\ videos[v].classification_method = "gpt"

\* number of entries of the error list for a video
ErrorCount(v) == Cardinality({k \in DOMAIN stats.errors : stats.errors[k] = v})

\* C6: a video whose classify_collab call failed on every attempt is persisted
\* with is_collab true, confidence 0.3 and method rule_fallback, and has exactly
\* one entry in the error list.
C6_FallbackOnExhaustion ==
    \A v \in DOMAIN gpt_outcome :
        gpt_outcome[v] = NoResult =>
            /\ videos[v].is_collab = TRUE
            /\ videos[v].collab_confidence = 30
            /\ videos[v].classification_method = "rule_fallback"
            /\ ErrorCount(v) = 1

\* a call has failed on every attempt
C6_Witness ==
    \E v \in DOMAIN gpt_outcome : gpt_outcome[v] = NoResult /\ ErrorCount(v) = 1

\* C7: without AI classifier, an escalated video is persisted with the fields of
\* its low-confidence rule result (is_collab true, partner null, category Other,
\* region Unknown, the rule summary, confidence 0.4) and method rule_low_conf.
C7_LowConfKeepsRuleResult ==
    (pc = "done" /\ ~run.gpt_client) =>
        \A v \in QueuedIds : Block(videos[v]) = ResultBlock(BatchRule(v), "rule_low_conf")

\* a video with a trigger keyword and no extractable partner
Unidentified(v) == BatchRule(v) # NoResult /\ BatchRule(v).partner_name = None

\* C8 as stated: without AI classifier, every video with a trigger keyword and
\* no extractable partner ends with is_collab true, confidence 0.3 and method
\* rule_low_conf, no AI call is made and the error list stays empty.
C8_NoAiDegradesToLowConf ==
    (pc = "done" /\ ~run.gpt_client) =>
        /\ \A v \in BatchIds :
            Unidentified(v) =>
                /\ videos[v].is_collab = TRUE
                /\ videos[v].collab_confidence = 30
                /\ videos[v].classification_method = "rule_low_conf"
        /\ gpt_calls = {}
        /\ stats.errors = <<>>

\* C8 amended: the same, for a gpt_threshold above 0.4 (as the default 0.5);
\* the absence of AI calls and of errors holds for every threshold.
C8_NoAiDegradesAboveRuleConfidence ==
    (pc = "done" /\ ~run.gpt_client) =>
        /\ \A v \in BatchIds :
            (Unidentified(v) /\ run.gpt_threshold > 40) =>
                /\ videos[v].is_collab = TRUE
                /\ videos[v].collab_confidence = 30
                /\ videos[v].classification_method = "rule_low_conf"
        /\ gpt_calls = {}
        /\ stats.errors = <<>>

\* a run at the default threshold without AI classifier met such a video
C8_Witness ==
    /\ pc = "done"
    /\ ~run.gpt_client
    /\ run.gpt_threshold = 50
    /\ \E v \in BatchIds : Unidentified(v) /\ videos[v].collab_confidence = 30

\* the values a classification of this run gives to a field of video v:
\* null, the rule result's, and the AI result's when there is one
ProducedValues(v, rule_field) ==
    {None}
    \cup (IF BatchRule(v) # NoResult THEN {BatchRule(v)[rule_field]} ELSE {})
    \cup (IF v \in DOMAIN gpt_outcome /\ gpt_outcome[v] # NoResult
          THEN {gpt_outcome[v][rule_field]} ELSE {})

C10_CollabHasConfidence ==
    \A v \in DOMAIN videos : videos[v].is_collab => videos[v].collab_confidence > 0

\* the video whose classify_collab call is under way
Current == gpt_queue[idx]

\* C11: a response that does not parse is a failed call: the attempt is retried,
\* and at the end of the retry budget the video is persisted with is_collab
\* true, confidence 0.3 and method rule_fallback.
C11_MalformedIsFailedCall ==
    [][\A content \in Responses :
          GptRemoteMalformed(content) =>
              \/ attempt' = attempt + 1 /\ videos' = videos
              \/ /\ videos'[Current].is_collab = TRUE
                 /\ videos'[Current].collab_confidence = 30
                 /\ videos'[Current].classification_method = "rule_fallback"]_vars

\* the videos at the positions of the queue before k
QueuedBefore(k) == {gpt_queue[j] : j \in {i \in DOMAIN gpt_queue : i < k}}

\* number of videos of the queue whose classify_collab call has ended
Processed == IF pc = "done" THEN Len(gpt_queue) ELSE idx - 1

\* C12: when the AI classifier is called, the rule engine has run on every video
\* of the batch; the queue is processed in order, one video at a time: the
\* videos before the current one are persisted under gpt or rule_fallback, the
\* videos after it are untouched and no call has been made for them.
C12_RulePassThenQueueInOrder ==
    (pc \in {"gpt", "done"} /\ run.gpt_client) =>
        /\ stats.total_processed = Len(batch)
        /\ \A v \in BatchIds \ QueuedIds : videos[v].classification_method = "rule"
        /\ DOMAIN gpt_outcome = QueuedBefore(Processed + 1)
        /\ gpt_calls \subseteq QueuedBefore(Processed + 2)
        /\ \A v \in DOMAIN gpt_outcome :
               videos[v].classification_method \in {"gpt", "rule_fallback"}
        /\ \A v \in QueuedIds \ DOMAIN gpt_outcome : videos[v] = BatchVideo(v)

\* the first video of the queue is persisted and the call for the second,
\* still untouched, is at its second attempt
C12_Witness ==
    /\ pc = "gpt"
    /\ idx = 2
    /\ attempt = 2
    /\ gpt_queue[1] \in DOMAIN gpt_outcome
    /\ videos[gpt_queue[2]].classification_method = None

\* the cache key of the classify_collab call for a video of the batch
KeyOf(v) == cache_input(BatchVideo(v).title, BatchVideo(v).description)

\* a step in which the remote classifier is invoked
RemoteStep ==
    \/ \E content \in Responses : GptRemoteParsed(content)
    \/ \E content \in Responses : GptRemoteMalformed(content)
    \/ GptRemoteErrorRetry
    \/ GptRemoteErrorExhausted

\* the calls of the run that have ended and had the key of the current one
EarlierCalls == {w \in DOMAIN gpt_outcome : KeyOf(w) = KeyOf(Current)}

\* the result the except branch of the parse gives

\* C14 as stated: of two calls of a run with the same title and truncated
\* description, at most one invocation of the remote classifier is made in
\* total, whatever the first call's outcome. (A call that invokes the remote
\* has missed the cache, which never loses an entry, so an earlier call with
\* its key has invoked the remote too.)
C14_RemoteOncePerKey ==
    [][RemoteStep => EarlierCalls = {}]_vars

\* C14 amended: once a call of the run has parsed a response for the key, no
\* later call with that key invokes the remote classifier; a malformed or
\* failed call caches nothing and the next call invokes the remote again.
C14_RemoteOncePerParsedKey ==
    [][RemoteStep =>
          \A w \in EarlierCalls : gpt_outcome[w] \in {NoResult, ParseErrorResult}]_vars

\* two calls of a run with the same key have ended, both with the parsed result
C14_Witness ==
    \E v, w \in DOMAIN gpt_outcome :
        /\ v # w
        /\ KeyOf(v) = KeyOf(w)
        /\ gpt_outcome[v] \notin {NoResult, ParseErrorResult}
        /\ gpt_outcome[w] = gpt_outcome[v]

\* C15: a call whose key has a cache entry returns the classification stored in
\* the entry, on its first attempt and without invoking the remote classifier,
\* and leaves the cache as it is; no step removes or replaces a cache entry.
C15_CacheHitIsFinal ==
    [][/\ \A key \in DOMAIN gpt_cache :
              key \in DOMAIN gpt_cache' /\ gpt_cache'[key] = gpt_cache[key]
       /\ (pc = "gpt" /\ KeyOf(Current) \in DOMAIN gpt_cache) =>
              /\ ~RemoteStep
              /\ attempt = 1
              /\ gpt_cache' = gpt_cache
              /\ gpt_outcome' =
                     (Current :> ParseResponse(gpt_cache[KeyOf(Current)])) @@ gpt_outcome]_vars

\* a later run whose only call was answered from the entry an earlier run cached
C15_Witness ==
    /\ pc = "done"
    /\ Len(gpt_queue) = 1
    /\ BatchVideo(gpt_queue[1]).classification_method = "gpt"
    /\ gpt_queue[1] \in DOMAIN gpt_outcome
    /\ KeyOf(gpt_queue[1]) \in DOMAIN gpt_cache
    /\ gpt_outcome[gpt_queue[1]] = ParseResponse(gpt_cache[KeyOf(gpt_queue[1])])
    /\ gpt_outcome[gpt_queue[1]].confidence = 80

\* C16: one classify_collab call makes at most 3 attempts. A failed attempt
\* before the third only starts the next attempt of the same call; the step
\* that ends a call makes no further attempt on it, and the call ends without
\* a result (the exception reaches classify_collabs, which records it in
\* stats.errors) exactly when its third attempt failed.
C16_AtMostThreeAttempts ==
    [][/\ attempt' \in 1..3
       /\ attempt' > attempt =>
              /\ attempt' = attempt + 1
              /\ pc' = "gpt" /\ idx' = idx
              /\ gpt_outcome' = gpt_outcome /\ videos' = videos
       /\ \A v \in DOMAIN gpt_outcome' \ DOMAIN gpt_outcome :
              /\ v = Current
              /\ attempt' = 1
              /\ gpt_outcome'[v] = NoResult => (attempt = 3 /\ stats'.errors = Append(stats.errors, v))
              /\ gpt_outcome'[v] # NoResult => stats'.errors = stats.errors]_vars

\* the first call gave up after its third attempt, the second is on its second
C16_Witness ==
    /\ pc = "gpt" /\ idx = 2 /\ attempt = 2
    /\ gpt_outcome[gpt_queue[1]] = NoResult
    /\ stats.errors = <<gpt_queue[1]>>

\* C19: right after normalize_partners has run, a second normalize_partners
\* builds an empty rename map and updates no video: it would return
\* partners_normalized = 0 and videos_updated = 0.
C19_SecondNormalizeIsEmpty ==
    [][normalize_partners =>
          NormalizeStats' = [partners_normalized |-> 0, videos_updated |-> 0]]_vars

\* C20: when normalize_partners has completed, every stored classified video
\* whose collab_partner matches an alias carries the canonical name of its
\* first matching alias, whatever its publish date and classification method.
C20_AllPartnersCanonical ==
    [][normalize_partners =>
          \A v \in DOMAIN videos' :
              (/\ videos'[v].classification_method # None
               /\ Truthy(videos'[v].collab_partner)
               /\ canonical_of[videos'[v].collab_partner] # None)
              => videos'[v].collab_partner = canonical_of[videos'[v].collab_partner]]_vars

\* C17: a failure while classifying one video never aborts the batch: once
\* classify_collabs has been left, it has returned its statistics, every video
\* of the batch is persisted in a terminal state, and each failure is in the
\* statistics.
C17_FailureNeverAbortsBatch ==
    pc \in {"done", "raised"} =>
        /\ pc = "done"
        /\ \A v \in BatchIds :
               videos[v].classification_method \in {"rule", "gpt", "rule_fallback", "rule_low_conf"}
        /\ \A v \in BatchIds :
               videos[v].classification_method = "rule_fallback" => ErrorCount(v) = 1

\* the videos the classification of the current iteration is about
InScope(v) == Head(cli.todo) = None \/ source_channel_of(v) = Head(cli.todo)

SecondRunDone ==
    /\ ReclassifiesAll
    /\ pc = "idle" /\ NextCall = "end"
    /\ cli.last.cmd = "classify"

SameBlocks == \A v \in DOMAIN videos : Block(videos[v]) = Block(cli.last.videos[v])

C21_NormalizeTouchesPartnerOnly ==
    [][normalize_partners =>
          /\ DOMAIN videos' = DOMAIN videos
          /\ \A v \in DOMAIN videos :
                 /\ [videos'[v] EXCEPT !.collab_partner = videos[v].collab_partner] = videos[v]
                 /\ videos[v].collab_partner
                        \notin DOMAIN normalization_map(PartnerNames(get_collab_videos))
                    => videos'[v] = videos[v]]_vars

\* a video classified by the AI classifier has been renamed by the normalizer
\* and keeps the category, region and summary the classifier gave
C21_Witness ==
    /\ pc = "idle"
    /\ \E v \in DOMAIN videos :
           /\ videos[v].classification_method = "gpt"
           /\ videos[v].collab_partner = "BLACKPINK"
           /\ videos[v].collab_region = "KR"
           /\ videos[v].collab_summary = "K-pop concert collab"

\* the call of the rule engine has returned
RuleReturned == call.fn = "_rule_based_classify" /\ call.returned

\* a configured trigger keyword is a substring of the case-folded title and
\* description of the call
KeywordPresent ==
    \E k \in DOMAIN collab_keywords :
        InCs(Spell[collab_keywords[k]],
             LowerCs(Spell[call.title] \o <<" ">> \o Spell[call.description]))

NonStopwordPatterns ==
    {k \in DOMAIN re_search[call.title] : Usable(Candidate(call.title, k))}

\* C23: the patterns are tried in their fixed priority order and the first
\* pattern whose match gives a non-stopword candidate determines the partner;
\* the low-confidence result (partner null, confidence 0.4) is returned only
\* when no pattern of the list yields a non-stopword, non-empty candidate.
C23_LowConfidenceOnlyWithoutCandidate ==
    (RuleReturned /\ call.result # NoResult) =>
        /\ call.result.confidence = 85 =>
               call.result.partner_name
                   = Aliased(Candidate(call.title, FirstIndex(NonStopwordPatterns)))
        /\ call.result.confidence = 40 =>
               \A k \in NonStopwordPatterns : Candidate(call.title, k) = ""

\* the name alias resolution gives for `name` when the aliases are compared
\* with `compared`: the canonical form of the first alias in table order that
\* contains `compared` or is contained in it, the name itself when there is none
ResolvedBy(name, compared) ==
    LET hits == {k \in DOMAIN partner_aliases :
                    \/ InCs(Spell[partner_aliases[k][1]], compared)
                    \/ InCs(compared, Spell[partner_aliases[k][1]])}
    IN  IF hits = {} THEN name
        ELSE partner_aliases[CHOOSE k \in hits : \A j \in hits : k <= j][2]

\* the name a partner has after normalize_partners built the map `map`
After(map, name) == IF name \in DOMAIN map THEN map[name] ELSE name

\* the call that builds normalization_map has returned
NormalizationReturned == call.fn = "normalization_map" /\ call.returned

\* C24 as stated: the rule engine and normalize_partners alike replace a name
\* by the canonical form of the first alias in table order that contains the
\* lower-cased name or is contained in it; later matching aliases never
\* influence the result and a name matching no alias is kept unchanged.
C24_FirstAliasOfLowerCasedName ==
    /\ (RuleReturned /\ call.result # NoResult /\ call.result.confidence = 85) =>
           \E name \in {ExtractPartner(call.title)} :
               call.result.partner_name = ResolvedBy(name, LowerCs(Spell[name]))
    /\ NormalizationReturned =>
           \A name \in call.partners :
               After(call.result, name) = ResolvedBy(name, LowerCs(Spell[name]))

\* C24, amended: the name is compared lower-cased and stripped of leading and
\* trailing whitespace; the first alias in table order that contains it or is
\* contained in it gives the canonical form, later matching aliases never
\* influence the result and a name matching no alias is kept unchanged.
C24_FirstAliasOfStrippedName ==
    /\ (RuleReturned /\ call.result # NoResult /\ call.result.confidence = 85) =>
           \E name \in {ExtractPartner(call.title)} :
               call.result.partner_name = ResolvedBy(name, StripCs(LowerCs(Spell[name])))
    /\ NormalizationReturned =>
           \A name \in call.partners :
               After(call.result, name) = ResolvedBy(name, StripCs(LowerCs(Spell[name])))

\* a name that contains two aliases with different canonical forms, next to a
\* name that matches none
C24_Witness ==
    /\ NormalizationReturned
    /\ call.partners = {"Kong and Godzilla", "Tesla"}
    /\ call.result = [name \in {"Kong and Godzilla"} |-> "Godzilla"]

\* a step of fetch_videos: of the calls that start and end with classify_collabs
\* at rest (fetch_videos and normalize_partners), the one that is not
\* normalize_partners
FetchStep == pc = "idle" /\ pc' = "idle" /\ ~normalize_partners

\* C25: fetching or re-fetching a video never changes its classification block,
\* whatever fetch and classify runs came before; a newly fetched video starts
\* with classification_method null; no operation deletes a video.
C25_FetchKeepsClassification ==
    [][/\ DOMAIN videos \subseteq DOMAIN videos'
       /\ FetchStep =>
              /\ \A v \in DOMAIN videos : Block(videos'[v]) = Block(videos[v])
              /\ \A v \in DOMAIN videos' \ DOMAIN videos :
                     videos'[v].classification_method = None]_vars

\* a video classified by the rule engine under one title and fetched again
\* under a title the rule engine rejects
C25_Witness ==
    /\ pc = "idle"
    /\ \E v \in DOMAIN videos :
           /\ videos[v].title = "New Update Patch Notes 2.9"
           /\ videos[v].classification_method = "rule"
           /\ videos[v].is_collab
           /\ videos[v].collab_partner = "BLACKPINK"

\* C28: when classify_collabs returns, total_processed = collabs_found +
\* non_collabs = rule_classified + gpt_classified + number of recorded errors,
\* and collabs_found is the number of processed videos persisted with is_collab
\* true, for every mix of rejected, accepted, AI-classified, fallback and
\* low-confidence videos.
C28_StatisticsAddUp ==
    pc = "done" =>
        /\ stats.total_processed = Len(batch)
        /\ stats.total_processed = stats.collabs_found + stats.non_collabs
        /\ stats.total_processed
               = stats.rule_classified + stats.gpt_classified + Len(stats.errors)
        /\ stats.collabs_found = Cardinality({v \in BatchIds : videos[v].is_collab})

\* one video of the run fell back after its AI call failed, the other was
\* classified by the AI
C28_Witness ==
    /\ pc = "done"
    /\ Len(stats.errors) = 1
    /\ stats.gpt_classified = 1
    /\ stats.total_processed = 2

\* a step of aggregate_collabs
AggregateStep == aggregate_collabs(CollabWindowDays)

MetricsReturned == call.fn = "_calculate_partner_metrics" /\ call.returned

\* the views and the likes of the videos of the call
ViewsOfCall == [k \in DOMAIN call.videos |-> call.videos[k].view_count]

LikesOfCall == [k \in DOMAIN call.videos |-> call.videos[k].like_count]

\* the fraction q is the quotient a / b
IsQuotient(q, a, b) == q.den > 0 /\ q.num * b = a * q.den

\* C27: the aggregate of a partner group has video_count equal to the number of
\* its videos, total_views and total_video_likes equal to the sums over them,
\* avg_views = total_views / video_count and like_rate = total_video_likes /
\* total_views (0 when total_views = 0); views 100, 200, 300 and likes 10, 20,
\* 30 give video_count 3, total_views 600, avg_views 200 and like_rate 60/600.
C27_PartnerMetrics ==
    MetricsReturned =>
        /\ call.result.video_count = Len(call.videos)
        /\ call.result.total_views = Sum(ViewsOfCall)
        /\ call.result.total_video_likes = Sum(LikesOfCall)
        /\ IsQuotient(call.result.avg_views, call.result.total_views, call.result.video_count)
        /\ IF call.result.total_views = 0 THEN call.result.like_rate.num = 0
           ELSE IsQuotient(call.result.like_rate, call.result.total_video_likes,
                           call.result.total_views)
        /\ (ViewsOfCall = <<100, 200, 300>> /\ LikesOfCall = <<10, 20, 30>>) =>
               /\ call.result.video_count = 3
               /\ call.result.total_views = 600
               /\ IsQuotient(call.result.avg_views, 200, 1)
               /\ IsQuotient(call.result.like_rate, 60, 600)

\* the scenario of the three videos
C27_Witness ==
    /\ MetricsReturned
    /\ ViewsOfCall = <<100, 200, 300>>
    /\ LikesOfCall = <<10, 20, 30>>
    /\ call.result.total_views = 600
    /\ call.result.like_rate = [num |-> 1, den |-> 10]

\* resume_fetch(task_type) runs to completion without an error: the resumed
\* pass over the videos completes, no comment save fails
ResumeCompletes(task_type) ==
    /\ ops < MaxOps
    /\ \E S \in SUBSET VideoIds : \E f \in [S -> Contents] :
           resume_fetch(task_type, S, f, "completed", {})
    /\ FetchFrame

\* C29: after resume_fetch(task_type) has run to completion without error, no
\* progress record of that task type is left pending or in_progress (a record
\* left in_progress by an interrupted video fetch or a failed comment save has
\* moved to completed or failed), so that a resume_fetch that follows finds
\* nothing incomplete.
C29_ResumeLeavesNothingIncomplete ==
    [][\A task_type \in {"videos", "comments"} :
           ResumeCompletes(task_type) => Incomplete(fetch_progress', task_type) = {}]_vars

\* upload_to_cloud has returned to the command
UploadReturned == call.fn = "upload_to_cloud" /\ call.returned

\* C30: upload_to_cloud returns in every case, an unconfigured cloud client
\* included, a result that holds the lists 'uploaded' and 'failed', so that the
\* commands export and upload complete without raising when they read them; a
\* file that fails to upload is reported in 'failed', sets success to false and
\* does not stop the upload of the files after it.
C30_UploadResultHasLists ==
    UploadReturned =>
        /\ {"uploaded", "failed"} \subseteq DOMAIN call.result
        /\ call.command_ended # "KeyError"
        /\ \A k \in DOMAIN call.files :
               IF call.files[k] = "accepted"
               THEN \E j \in DOMAIN call.result.uploaded : call.result.uploaded[j].path = k
               ELSE /\ \E j \in DOMAIN call.result.failed : call.result.failed[j].path = k
                    /\ call.result.success = FALSE
====
